---- MODULE Spec2Model ----
(***************************************************************************)
(* The double-buffered pipeline Simulation of src/src/Simulation.cpp:      *)
(* the computation, control and monitor threads, the lifecycle calls       *)
(* start/stop/pause/resume and the snapshot read getBalls, with the        *)
(* single-queue GPUManager::updateSimulation of src/src/GPUManager.cpp.    *)
(*                                                                         *)
(* Each action is one atomic operation of the code, or one critical        *)
(* section of pipeline.frameMutex. Timing is not modelled: a sleep is a    *)
(* step. std::thread construction is taken to succeed, and a call of       *)
(* updateSimulation or updateDisplay either returns or throws.             *)
(***************************************************************************)
EXTENDS Integers, Sequences, FiniteSets, TLC

\* Number of balls placed at construction.
NumBalls == 2

\* Largest number of ticks a modelled ball may carry.
MaxTicks == 3

\* Cap of the history counter of updateSimulation calls made while paused.
MaxPausedTicks == 2

\* Number of setConfig calls made in a run.
MaxConfigs == 2

\* Number of balls of the per-ball task variant.
NumTasks == 2

\* Number of Simulation::update() calls made in a run of the task variant.
MaxUpdates == 2

\* Number of balls, and of threads, of the grid/mutex variant.
NumGridBalls == 3

\* Number of grid cells in the neighbourhood the balls share.
NumCells == 2

\* numBalls of a detectCollisions launch; one work-item per ball.
NumKernelBalls == 3

\* Attempts per grid cell that initializeBalls makes in the model; the
\* source makes 50.
MaxAttempts == 2

\* Distance between two neighbouring values that a random draw of a
\* coordinate can return in the model.
DrawStep == 60

\* Largest numBalls and largest number of work-items of the launches whose
\* pair ranges are enumerated.
MaxLaunchBalls == 5

MaxLaunchItems == 6

\* Number of updateSimulation calls made in a run of the two-queue variant.
MaxQueueCalls == 2

\* Number of writes to a ball's position made in a run of the position
\* readers and writers of the grid/mutex variant.
MaxWrites == 2

VARIABLES
    running,        \* std::atomic<bool> running
    paused,         \* std::atomic<bool> paused
    pipelineState,  \* pipeline.state
    frameMutex,     \* owner of pipeline.frameMutex, or "free"
    frameWaiters,   \* threads blocked inside pipeline.frameCondition.wait
    currentFrame,   \* pipeline.currentFrame.balls
    nextFrame,      \* pipeline.nextFrame.balls
    swapTmp,        \* the temporary of std::swap(currentFrame, nextFrame)
    ballBuffer,     \* GPUManager::ballBuffer, the device copy of the balls
    tpc,            \* position of each background thread ("off": no thread)
    cpc,            \* position of each caller of the public interface
    res,            \* what each caller's last getBalls() returned
    activeThreads,  \* metrics.activeThreads
    lastTick,       \* history: result of the last completed updateSimulation
    pausedTicks,    \* history: updateSimulation calls made while paused
    constants,      \* Simulation::constants: gravity, restitution, dt
    constantsBuffer,\* GPUManager::constantsBuffer as the last upload left it
    ballsMutex,     \* owner of Simulation::ballsMutex, or "free"
    cfgArg,         \* the newConfig argument of the setConfig call under way
    cfgPc,          \* position of the setConfig caller and of the uploading tick
    running_,       \* task variant: Ball::running_ of each ball
    proceed_,       \* task variant: Ball::proceed_ of each ball
    updateReady_,   \* task variant: Ball::updateReady_ of each ball
    y_,             \* task variant: Ball::y_ of each ball
    vy_,            \* task variant: Ball::vy_ of each ball
    bpc,            \* task variant: position of each ball's task in Ball::run
    loc,            \* task variant: the locals of each ball's task
    upc,            \* task variant: position of the caller of the Simulation
    nInt,           \* history: integrations each ball has finished
    nUpdates,       \* history: update() calls made
    nImpulses,      \* history: impulses each pair has received since the
                    \* last update() or stop() call
    gridMtx,        \* grid variant: owner of each Ball::mtx_ and Cell::mtx
    gpc,            \* grid variant: the call each thread is executing
    kBalls,         \* kernel: the __global Ball array of the launch
    wpc,            \* kernel: position of each work-item
    wloc,           \* kernel: pair, ball1 and ball2 of each work-item, and
                    \* as history the pairs it has written back
    kRestitution,   \* kernel: constants->restitution, in hundredths
    kInput,         \* history: the Ball array as the launch found it
    simArgs,        \* constructor: numBalls, screenWidth_, screenHeight_
    simPc,          \* constructor: position of Simulation::Simulation
    placed,         \* constructor: Simulation::balls
    cell,           \* constructor: row, col, attempt and ball of the
                    \* placement loop
    x_,             \* grid variant: Ball::x_ of each ball, in hundredths
    vx_,            \* grid variant: Ball::vx_ of each ball, in hundredths
    tickPc,         \* grid variant: position of the tick's driver
    cells_,         \* grid variant: Grid::cells_, each cell's mtx and balls
    ipc,            \* grid variant: each thread's call of Grid::insertBall
    transferQueue,  \* two-queue variant: commands enqueued and not yet run
    computeQueue,   \* two-queue variant: commands enqueued and not yet run
    gpu,            \* two-queue variant: ballBuffer and constantsBuffer
    host,           \* two-queue variant: the caller's vector and position
    xy_,            \* grid variant: x_ and y_ of one ball, as write numbers
    mtx_,           \* grid variant: the owner of that ball's mtx_
    posPc           \* grid variant: the threads that read and write it

vars == <<running, paused, pipelineState, frameMutex, frameWaiters,
          currentFrame, nextFrame, swapTmp, ballBuffer, tpc, cpc, res,
          activeThreads, lastTick, pausedTicks,
          constants, constantsBuffer, ballsMutex, cfgArg, cfgPc,
          running_, proceed_, updateReady_, y_, vy_, bpc, loc, upc,
          nInt, nUpdates, nImpulses,
          gridMtx, gpc, kBalls, wpc, wloc, kRestitution, kInput,
          simArgs, simPc, placed, cell, x_, vx_, tickPc, cells_, ipc,
          transferQueue, computeQueue, gpu, host, xy_, mtx_, posPc>>

Threads == {"compute", "control", "monitor"}

Clients == {"c1", "c2"}

Balls == 1..NumBalls

\* A ball is the construction-time ball it derives from (its place in the
\* vector, with the radius, mass and colour that never change) and the number
\* of physics ticks its position and velocity have been through. nan tells
\* that a position or velocity component is NaN or infinite; initializeBalls
\* places balls with finite components.
InitBalls == [i \in Balls |-> [id |-> i, ticks |-> 0, nan |-> FALSE]]

\* A vector that has been moved from.
MovedFrom == <<>>

----------------------------------------------------------------------------
\* GPUManager::updateSimulation

\* What the two kernels do to one ball of the device buffer.
UpdateBall(b) == [b EXCEPT !.ticks = @ + 1]

\* The device buffer after a call: the uploaded balls, one tick later.
DeviceAfterUpdate(balls) == [i \in DOMAIN balls |-> UpdateBall(balls[i])]

\* The kernels' floating-point arithmetic may leave a NaN or an infinity in
\* a ball (a division by a vanishing distance, an overflowing velocity).
CorruptBall(balls, i) == [balls EXCEPT ![i].nan = TRUE]

\* Mutant of HostAfterUpdate: the device buffer is read back into the vector.
HostReadsBack(balls, device) == device

\* The caller's vector after a call that left device in the device buffer:
\* nothing is read back.
HostAfterUpdate(balls, device) == balls

----------------------------------------------------------------------------
\* pipeline.frameMutex and pipeline.frameCondition

\* Mutant of TryLock: a lock that excludes nobody.
TryLockExcludesNobody(who) == TRUE

\* std::mutex::lock returns only when nobody owns the mutex.
TryLock(who) == frameMutex = "free"

\* The predicate of the control thread's wait.
ControlPred == ~running \/ (~paused /\ pipelineState = "FRAME_READY")

\* Mutant of ComputePred: the thread waits until the frame has been taken.
ComputePredWaitsForDisplay == ~running \/ pipelineState # "FRAME_READY"
\* The predicate of the computation thread's wait.
ComputePred == ~running \/ pipelineState # "FRAME_SWAPPING"

WaitPred(t) == IF t = "control" THEN ControlPred ELSE ComputePred

\* The thread positions after the threads of W have been notified.
Woken(W) == [t \in Threads |-> IF t \in W THEN "wake" ELSE tpc[t]]

\* The sets of waiters notify_one may wake: one waiter, or none if none waits.
NotifyOneSets == IF frameWaiters = {} THEN {{}} ELSE {{w} : w \in frameWaiters}

CvThreads == {"compute", "control"}

----------------------------------------------------------------------------
\* Simulation::constants and Simulation::setConfig

\* A configuration is told apart by the number of the setConfig call that
\* brought it; 0 is the configuration of the constructor.
ConstantFields == {"dt", "gravity", "restitution"}

UniformConstants(v) == [f \in ConstantFields |-> v]

ConfigInit ==
    /\ constants = UniformConstants(0)
    /\ constantsBuffer = UniformConstants(0)
    /\ ballsMutex = "free"
    /\ cfgArg = 0
    /\ cfgPc = [who \in {"setConfig", "tick"} |-> "idle"]

configVars == <<constants, constantsBuffer, ballsMutex, cfgArg, cfgPc>>

----------------------------------------------------------------------------
\* The per-ball task variant: its balls after the constructor

TaskBalls == 1..NumTasks

\* Lengths are in hundredths of a pixel, velocities in hundredths of a pixel
\* per second; a float operation that does not come out even is rounded down.
Radius == 5000

\* GRAVITY * (1.0f / 30.0f) = 0.327
GravityStep == 32

\* updatePosition(1.0f / 30.0f) multiplies the velocity by 1/30.
StepsPerSecond == 30

\* checkCollisionWithBoundary(1400.0f, 900.0f)
ScreenHeight == 90000

\* The balls stand in one column (equal x_, vx_ = 0, so every x term of the
\* arithmetic is 0). Balls 1 and 2 are 50 pixels apart, overlap, and move
\* towards one another with 200 pixels per second; any further ball stands
\* clear of the others. All have radius 50 and mass 5.
InitY == [i \in TaskBalls |-> 40000 + 5000 * (i - 1) * (i - 1)]

InitVy == [i \in TaskBalls |-> IF i = 1 THEN 20000 ELSE -20000]

NoLocals == [k |-> 0, dy |-> 0, vo |-> 0, vs |-> 0]

Idle == [op |-> "idle", i |-> 0]

\* The unordered pairs of balls.
Pairs == {{i, j} : i, j \in TaskBalls} \ {{i} : i \in TaskBalls}

TaskInit ==
    /\ running_ = [i \in TaskBalls |-> FALSE]
    /\ proceed_ = [i \in TaskBalls |-> FALSE]
    /\ updateReady_ = [i \in TaskBalls |-> FALSE]
    /\ y_ = InitY
    /\ vy_ = InitVy
    /\ bpc = [i \in TaskBalls |-> "none"]
    /\ loc = [i \in TaskBalls |-> NoLocals]
    /\ upc = Idle
    /\ nInt = [i \in TaskBalls |-> 0]
    /\ nUpdates = 0
    /\ nImpulses = [p \in Pairs |-> 0]

taskVars == <<running_, proceed_, updateReady_, y_, vy_, bpc, loc, upc,
              nInt, nUpdates, nImpulses>>

----------------------------------------------------------------------------
\* The grid/mutex variant: its mutexes and threads before any call

GridBalls == 1..NumGridBalls

\* A mutex is named by a number: ball i's mtx_ is i, cell c's mtx is
\* NumGridBalls + c.
CellMtx(c) == NumGridBalls + c

GridMutexes == 1..(NumGridBalls + NumCells)

\* A thread that is executing no call.
NoCall == [prog |-> <<>>, pc |-> 1, blockOn |-> 0, mode |-> "none"]

GridInit ==
    /\ gridMtx = [m \in GridMutexes |-> 0]
    /\ gpc = [t \in GridBalls |-> NoCall]

gridVars == <<gridMtx, gpc>>

----------------------------------------------------------------------------
\* The detectCollisions kernel: the launch's work distribution and input

KBalls == 0..(NumKernelBalls - 1)

\* get_global_size(0): updateSimulation launches one work-item per ball.
NumItems == NumKernelBalls

WorkItems == 0..(NumItems - 1)

TotalPairs == (NumKernelBalls * (NumKernelBalls - 1)) \div 2

PairsPerThread == (TotalPairs + NumItems - 1) \div NumItems

StartPair(gid) == gid * PairsPerThread

EndPair(gid) ==
    IF StartPair(gid) + PairsPerThread < TotalPairs
    THEN StartPair(gid) + PairsPerThread ELSE TotalPairs

\* The while loop that converts a pair index to the lesser ball index.
RECURSIVE PairI(_, _)
PairI(temp, i) ==
    IF temp >= NumKernelBalls - 1 - i
    THEN PairI(temp - (NumKernelBalls - 1 - i), i + 1)
    ELSE i

RECURSIVE PairTemp(_, _)
PairTemp(temp, i) ==
    IF temp >= NumKernelBalls - 1 - i
    THEN PairTemp(temp - (NumKernelBalls - 1 - i), i + 1)
    ELSE temp

PairJ(pair) == PairTemp(pair, 0) + PairI(pair, 0) + 1

\* A Ball whose centre lies on the x axis: x is position.x, v is velocity.x,
\* w is velocity.y. resolved is history: the pairs whose resolution the
\* value carries.
KernelBall(x, v, w, mass) ==
    [x |-> x, v |-> v, w |-> w, radius |-> 10, mass |-> mass,
     resolved |-> {}]

\* The array before the launch: equal balls of radius 10 and mass 1 whose
\* centres lie 5 apart, each moving towards the ones on its other side, so
\* that every pair overlaps and approaches.
InitKernelBalls == [b \in KBalls |-> KernelBall(5 * b, 20 - 20 * b, 0, 1)]

NoBall == [x |-> 0, v |-> 0, w |-> 0, radius |-> 0, mass |-> 0,
           resolved |-> {}]

\* A work-item's position at the head of its for loop.
LoopHead(gid, pair) == IF pair < EndPair(gid) THEN "load1" ELSE "done"

KernelInit ==
    /\ kBalls = InitKernelBalls
    /\ wpc = [w \in WorkItems |-> "idle"]
    /\ wloc = [w \in WorkItems |->
                 [pair |-> StartPair(w), ball1 |-> NoBall, ball2 |-> NoBall,
                  wrote |-> {}]]
    /\ kRestitution = 80
    /\ kInput = InitKernelBalls

kernelVars == <<kBalls, wpc, wloc, kRestitution, kInput>>

----------------------------------------------------------------------------
\* Simulation::Simulation of the pipeline variant, before it is called

MIN_COUNT == 3

MAX_COUNT == 200

\* A ball of the placement loop that has no radius and no position yet.
NoCell == [row |-> 0, col |-> 0, attempt |-> 0, radius |-> 0]

CtorInit ==
    /\ simArgs = [numBalls |-> 0, screenWidth |-> 0, screenHeight |-> 0]
    /\ simPc = "none"
    /\ placed = <<>>
    /\ cell = NoCell

ctorVars == <<simArgs, simPc, placed, cell>>

\* The grid/mutex variant's balls before their constructors have run.
PhysInit ==
    /\ x_ = [b \in GridBalls |-> 0]
    /\ vx_ = [b \in GridBalls |-> 0]
    /\ tickPc = [phase |-> "new", b |-> 1, k |-> 1]

physVars == <<x_, vx_, tickPc>>

\* The cells of the grid: cols_ columns of rows_ rows.
CellIds == (0..(NumCells - 1)) \X (0..(NumCells - 1))

\* A thread that has not called insertBall yet.
NoInsert == [pc |-> "idle", x |-> 0, y |-> 0, size |-> 0, out |-> <<>>]

\* The grid after a completed clear(): every cell empty and unlocked.
InsertInit ==
    /\ cells_ = [c \in CellIds |-> [mtx |-> 0, balls |-> <<>>]]
    /\ ipc = [t \in GridBalls |-> NoInsert]

insertVars == <<cells_, ipc>>

\* The two-queue GPUManager before the first updateSimulation: both queues
\* empty, the buffers as created, the caller's vector as constructed. Ball
\* data is the list of the kernel runs it has been through; constants are
\* the number of the call that passed them, 0 before the first.
QueueInit ==
    /\ transferQueue = <<>>
    /\ computeQueue = <<>>
    /\ gpu = [ballBuffer |-> <<>>, constantsBuffer |-> 0]
    /\ host = [balls |-> <<>>, call |-> 0, pc |-> "idle"]

queueVars == <<transferQueue, computeQueue, gpu, host>>

\* The threads that use one ball's position: the ball's own thread, which
\* calls updatePosition, a thread that calls getPosition, and the thread
\* of another ball, whose detectCollisions corrects this ball's position.
PosThreads == {"own", "reader", "other"}

\* The ball as constructed: x_ and y_ carry write number 0, nobody holds
\* mtx_ ("free"), and no thread is inside a call.
PosInit ==
    /\ xy_ = [x |-> 0, y |-> 0, writes |-> 0]
    /\ mtx_ = "free"
    /\ posPc = [t \in PosThreads |-> [pc |-> "idle", x |-> 0, y |-> 0]]

posVars == <<xy_, mtx_, posPc>>

\* The variables of the constructor and of the physics of one tick.
laterVars == <<ctorVars, physVars, insertVars, queueVars, posVars>>

\* The state that the pipeline's threads and lifecycle calls leave alone.
restVars == <<configVars, taskVars, gridVars, kernelVars, laterVars>>

----------------------------------------------------------------------------
\* Initial state: the object after its constructor

Init ==
    /\ running = FALSE
    /\ paused = FALSE
    /\ pipelineState = "FRAME_COMPUTING"
    /\ frameMutex = "free"
    /\ frameWaiters = {}
    /\ currentFrame = InitBalls
    /\ nextFrame = InitBalls
    /\ swapTmp = MovedFrom
    /\ ballBuffer = InitBalls
    /\ tpc = [t \in Threads |-> "off"]
    /\ cpc = [c \in Clients |-> "idle"]
    /\ res = [c \in Clients |-> [valid |-> FALSE, balls |-> MovedFrom]]
    /\ activeThreads = 0
    /\ lastTick = InitBalls
    /\ pausedTicks = 0
    /\ ConfigInit
    /\ TaskInit
    /\ GridInit
    /\ KernelInit
    /\ CtorInit
    /\ PhysInit
    /\ InsertInit
    /\ QueueInit
    /\ PosInit

flagVars == <<running, paused>>
frameVars == <<currentFrame, nextFrame, swapTmp>>
histVars == <<lastTick, pausedTicks>>

----------------------------------------------------------------------------
\* The condition-variable wait shared by the computation and control threads:
\* frameCondition.wait(lock, pred) is while (!pred()) wait(lock).

\* std::unique_lock<std::mutex> lock(pipeline.frameMutex)
WaitLock(t) ==
    /\ tpc[t] = "waitLock"
    /\ TryLock(t)
    /\ frameMutex' = t
    /\ tpc' = [tpc EXCEPT ![t] = "waitPred"]
    /\ UNCHANGED <<restVars, flagVars, pipelineState, frameWaiters, frameVars,
                   ballBuffer, cpc, res, activeThreads, histVars>>

\* The predicate is evaluated with the mutex held. When it holds the wait
\* returns and the lock's scope ends; otherwise the thread goes on to block.
WaitEval(t) ==
    /\ tpc[t] = "waitPred"
    /\ frameMutex = t
    /\ IF WaitPred(t)
       THEN /\ tpc' = [tpc EXCEPT ![t] = "chkRun"]
            /\ frameMutex' = "free"
       ELSE /\ tpc' = [tpc EXCEPT ![t] = "waitBlock"]
            /\ UNCHANGED frameMutex
    /\ UNCHANGED <<restVars, flagVars, pipelineState, frameWaiters, frameVars,
                   ballBuffer, cpc, res, activeThreads, histVars>>

\* Mutant of WaitBlock: the thread blocks without releasing the mutex.
WaitBlockKeepsMutex(t) ==
    /\ tpc[t] = "waitBlock"
    /\ frameMutex = t
    /\ frameWaiters' = frameWaiters \cup {t}
    /\ tpc' = [tpc EXCEPT ![t] = "blocked"]
    /\ UNCHANGED <<restVars, flagVars, pipelineState, frameMutex, frameVars, ballBuffer,
                   cpc, res, activeThreads, histVars>>

\* condition_variable::wait(lock): releases the mutex and blocks, atomically.
WaitBlock(t) ==
    /\ tpc[t] = "waitBlock"
    /\ frameMutex = t
    /\ frameMutex' = "free"
    /\ frameWaiters' = frameWaiters \cup {t}
    /\ tpc' = [tpc EXCEPT ![t] = "blocked"]
    /\ UNCHANGED <<restVars, flagVars, pipelineState, frameVars, ballBuffer, cpc, res,
                   activeThreads, histVars>>

\* A notified thread takes the mutex again before it re-evaluates the predicate.
WaitReacquire(t) ==
    /\ tpc[t] = "wake"
    /\ TryLock(t)
    /\ frameMutex' = t
    /\ tpc' = [tpc EXCEPT ![t] = "waitPred"]
    /\ UNCHANGED <<restVars, flagVars, pipelineState, frameWaiters, frameVars,
                   ballBuffer, cpc, res, activeThreads, histVars>>

\* condition_variable::wait may return without a notification.
SpuriousWakeup(t) ==
    /\ t \in frameWaiters
    /\ frameWaiters' = frameWaiters \ {t}
    /\ tpc' = Woken({t})
    /\ UNCHANGED <<restVars, flagVars, pipelineState, frameMutex, frameVars, ballBuffer,
                   cpc, res, activeThreads, histVars>>

\* if (!running) break;
ChkRun(t) ==
    /\ tpc[t] = "chkRun"
    /\ tpc' = [tpc EXCEPT ![t] = IF running THEN "critLock" ELSE "exit"]
    /\ UNCHANGED <<restVars, flagVars, pipelineState, frameMutex, frameWaiters,
                   frameVars, ballBuffer, cpc, res, activeThreads, histVars>>

\* std::lock_guard<std::mutex> lock(pipeline.frameMutex) of the tick or swap
CritLock(t) ==
    /\ tpc[t] = "critLock"
    /\ TryLock(t)
    /\ frameMutex' = t
    /\ tpc' = [tpc EXCEPT ![t] = IF t = "compute" THEN "tick" ELSE "swap1"]
    /\ UNCHANGED <<restVars, flagVars, pipelineState, frameWaiters, frameVars,
                   ballBuffer, cpc, res, activeThreads, histVars>>

\* metrics.activeThreads.fetch_add(1)
ThreadEntry(t) ==
    /\ tpc[t] = "entry"
    /\ activeThreads' = activeThreads + 1
    /\ tpc' = [tpc EXCEPT ![t] = "loop"]
    /\ UNCHANGED <<restVars, flagVars, pipelineState, frameMutex, frameWaiters,
                   frameVars, ballBuffer, cpc, res, histVars>>

\* metrics.activeThreads.fetch_sub(1), then the thread function returns
ThreadExit(t) ==
    /\ tpc[t] = "exit"
    /\ activeThreads' = activeThreads - 1
    /\ tpc' = [tpc EXCEPT ![t] = "done"]
    /\ UNCHANGED <<restVars, flagVars, pipelineState, frameMutex, frameWaiters,
                   frameVars, ballBuffer, cpc, res, histVars>>

\* pipeline.frameCondition.notify_one() after the tick or the swap
ThreadNotify(t) ==
    /\ tpc[t] = "notify"
    /\ \E W \in NotifyOneSets :
         /\ frameWaiters' = frameWaiters \ W
         /\ tpc' = [Woken(W) EXCEPT ![t] = IF t = "compute" THEN "sleep" ELSE "display"]
    /\ UNCHANGED <<restVars, flagVars, pipelineState, frameMutex, frameVars, ballBuffer,
                   cpc, res, activeThreads, histVars>>

\* std::this_thread::sleep_until(...) at the end of a loop round
ThreadSleep(t) ==
    /\ tpc[t] = "sleep"
    /\ tpc' = [tpc EXCEPT ![t] = "loop"]
    /\ UNCHANGED <<restVars, flagVars, pipelineState, frameMutex, frameWaiters,
                   frameVars, ballBuffer, cpc, res, activeThreads, histVars>>

----------------------------------------------------------------------------
\* Simulation::computationThreadFunc

\* while (running)
ComputeLoop ==
    /\ tpc["compute"] = "loop"
    /\ tpc' = [tpc EXCEPT !["compute"] = IF running THEN "chkPaused" ELSE "exit"]
    /\ UNCHANGED <<restVars, flagVars, pipelineState, frameMutex, frameWaiters,
                   frameVars, ballBuffer, cpc, res, activeThreads, histVars>>

\* Mutant of ComputeChkPaused: the paused flag is not looked at.
ComputeIgnoresPaused ==
    /\ tpc["compute"] = "chkPaused"
    /\ tpc' = [tpc EXCEPT !["compute"] = "waitLock"]
    /\ UNCHANGED <<restVars, flagVars, pipelineState, frameMutex, frameWaiters,
                   frameVars, ballBuffer, cpc, res, activeThreads, histVars>>

\* if (paused) { sleep_for(1ms); continue; }
ComputeChkPaused ==
    /\ tpc["compute"] = "chkPaused"
    /\ tpc' = [tpc EXCEPT !["compute"] = IF paused THEN "loop" ELSE "waitLock"]
    /\ UNCHANGED <<restVars, flagVars, pipelineState, frameMutex, frameWaiters,
                   frameVars, ballBuffer, cpc, res, activeThreads, histVars>>

\* The history counter after one more updateSimulation call.
CountPausedTick ==
    IF paused /\ pausedTicks < MaxPausedTicks THEN pausedTicks + 1 ELSE pausedTicks

\* gpuManager.updateSimulation(pipeline.nextFrame.balls, constants) returns:
\* the state becomes FRAME_READY and the lock_guard's scope ends.
ComputeTick ==
    /\ tpc["compute"] = "tick"
    /\ frameMutex = "compute"
    /\ \A i \in DOMAIN nextFrame : nextFrame[i].ticks < MaxTicks
    /\ ballBuffer' = DeviceAfterUpdate(nextFrame)
    /\ nextFrame' = HostAfterUpdate(nextFrame, DeviceAfterUpdate(nextFrame))
    /\ lastTick' = DeviceAfterUpdate(nextFrame)
    /\ pausedTicks' = CountPausedTick
    /\ pipelineState' = "FRAME_READY"
    /\ frameMutex' = "free"
    /\ tpc' = [tpc EXCEPT !["compute"] = "notify"]
    /\ UNCHANGED <<restVars, flagVars, frameWaiters, currentFrame, swapTmp, cpc, res,
                   activeThreads>>

\* gpuManager.updateSimulation returns after a kernel has left a NaN or an
\* infinity in ball i of the device buffer; no command reports it.
ComputeTickCorrupt ==
    /\ tpc["compute"] = "tick"
    /\ frameMutex = "compute"
    /\ \A i \in DOMAIN nextFrame : nextFrame[i].ticks < MaxTicks
    /\ \E i \in DOMAIN nextFrame :
         LET device == CorruptBall(DeviceAfterUpdate(nextFrame), i)
         IN  /\ ballBuffer' = device
             /\ nextFrame' = HostAfterUpdate(nextFrame, device)
             /\ lastTick' = device
    /\ pausedTicks' = CountPausedTick
    /\ pipelineState' = "FRAME_READY"
    /\ frameMutex' = "free"
    /\ tpc' = [tpc EXCEPT !["compute"] = "notify"]
    /\ UNCHANGED <<restVars, flagVars, frameWaiters, currentFrame, swapTmp, cpc, res,
                   activeThreads>>

\* Mutant of ThrowStoresState: a failed tick is announced as FRAME_READY.
ThrowStoresReady == "FRAME_READY"

\* pipeline.state after a call that threw: the store is skipped.
ThrowStoresState == pipelineState

\* gpuManager.updateSimulation throws: the lock_guard is released by the
\* unwinding, handleError logs, and continue starts the next round. The device
\* buffer is as it was, holds the upload, or holds the finished tick, depending
\* on the command that failed; the caller's vector is not written.
ComputeTickThrows ==
    /\ tpc["compute"] = "tick"
    /\ frameMutex = "compute"
    /\ ballBuffer' \in {ballBuffer, nextFrame, DeviceAfterUpdate(nextFrame)}
    /\ pausedTicks' = CountPausedTick
    /\ pipelineState' = ThrowStoresState
    /\ frameMutex' = "free"
    /\ tpc' = [tpc EXCEPT !["compute"] = "loop"]
    /\ UNCHANGED <<restVars, flagVars, frameWaiters, frameVars, cpc, res,
                   activeThreads, lastTick>>

----------------------------------------------------------------------------
\* Simulation::controlThreadFunc

\* while (running)
ControlLoop ==
    /\ tpc["control"] = "loop"
    /\ tpc' = [tpc EXCEPT !["control"] = IF running THEN "waitLock" ELSE "exit"]
    /\ UNCHANGED <<restVars, flagVars, pipelineState, frameMutex, frameWaiters,
                   frameVars, ballBuffer, cpc, res, activeThreads, histVars>>

\* std::swap(pipeline.currentFrame, pipeline.nextFrame) is
\* Frame tmp(std::move(a)); a = std::move(b); b = std::move(tmp).
SwapMoveOut ==
    /\ tpc["control"] = "swap1"
    /\ frameMutex = "control"
    /\ swapTmp' = currentFrame
    /\ currentFrame' = MovedFrom
    /\ tpc' = [tpc EXCEPT !["control"] = "swap2"]
    /\ UNCHANGED <<restVars, flagVars, pipelineState, frameMutex, frameWaiters,
                   nextFrame, ballBuffer, cpc, res, activeThreads, histVars>>

SwapMoveAcross ==
    /\ tpc["control"] = "swap2"
    /\ frameMutex = "control"
    /\ currentFrame' = nextFrame
    /\ nextFrame' = MovedFrom
    /\ tpc' = [tpc EXCEPT !["control"] = "swap3"]
    /\ UNCHANGED <<restVars, flagVars, pipelineState, frameMutex, frameWaiters,
                   swapTmp, ballBuffer, cpc, res, activeThreads, histVars>>

\* Mutant of SwapMoveBackValue: the temporary is not moved back.
SwapDropsTmp == MovedFrom

\* What the last move of the swap leaves in nextFrame.
SwapMoveBackValue == swapTmp

\* b = std::move(tmp); pipeline.state.store(FRAME_DISPLAYING); end of scope
SwapMoveBack ==
    /\ tpc["control"] = "swap3"
    /\ frameMutex = "control"
    /\ nextFrame' = SwapMoveBackValue
    /\ swapTmp' = MovedFrom
    /\ pipelineState' = "FRAME_DISPLAYING"
    /\ frameMutex' = "free"
    /\ tpc' = [tpc EXCEPT !["control"] = "notify"]
    /\ UNCHANGED <<restVars, flagVars, frameWaiters, currentFrame, ballBuffer, cpc, res,
                   activeThreads, histVars>>

\* updateDisplay() and the FPS bookkeeping; an exception leads to continue,
\* which skips the sleep.
ControlDisplay ==
    /\ tpc["control"] = "display"
    /\ \E next \in {"sleep", "loop"} : tpc' = [tpc EXCEPT !["control"] = next]
    /\ UNCHANGED <<restVars, flagVars, pipelineState, frameMutex, frameWaiters,
                   frameVars, ballBuffer, cpc, res, activeThreads, histVars>>

----------------------------------------------------------------------------
\* Simulation::monitorThreadFunc

\* while (running); the function returns when running is false
MonitorLoop ==
    /\ tpc["monitor"] = "loop"
    /\ tpc' = [tpc EXCEPT !["monitor"] = IF running THEN "work" ELSE "done"]
    /\ UNCHANGED <<restVars, flagVars, pipelineState, frameMutex, frameWaiters,
                   frameVars, ballBuffer, cpc, res, activeThreads, histVars>>

\* updatePerformanceMetrics(); checkPerformance(); sleep_until(...)
MonitorWork ==
    /\ tpc["monitor"] = "work"
    /\ tpc' = [tpc EXCEPT !["monitor"] = "loop"]
    /\ UNCHANGED <<restVars, flagVars, pipelineState, frameMutex, frameWaiters,
                   frameVars, ballBuffer, cpc, res, activeThreads, histVars>>

----------------------------------------------------------------------------
\* The public interface, called from the client threads

StartPcs == {"startXchg", "startState", "setup1", "setup2", "setup3"}

StopPcs == {"stopXchg", "stopNotify", "join1", "join2", "join3"}

\* The order in which setupThreads creates and stop() joins the threads.
ThreadOrder == <<"compute", "control", "monitor">>

\* The program drives the lifecycle from one thread (main.cpp): start() never
\* runs while another caller is inside start() or stop(), and stop() never
\* runs while another caller is inside start(). Two callers may be inside
\* stop() at once.
CanCallStart(c) == \A d \in Clients \ {c} : cpc[d] \notin StartPcs \cup StopPcs

CanCallStop(c) == \A d \in Clients \ {c} : cpc[d] \notin StartPcs

CallStart(c) ==
    /\ cpc[c] = "idle"
    /\ CanCallStart(c)
    /\ cpc' = [cpc EXCEPT ![c] = "startXchg"]
    /\ UNCHANGED <<restVars, flagVars, pipelineState, frameMutex, frameWaiters,
                   frameVars, ballBuffer, tpc, res, activeThreads, histVars>>

\* Mutant of StartProceeds: running is stored without looking at its old value.
StartAlwaysProceeds == TRUE

\* Whether start() goes on to set the pipeline up: !running.exchange(true).
StartProceeds == ~running

\* if (!running.exchange(true)) { ... }
StartExchange(c) ==
    /\ cpc[c] = "startXchg"
    /\ running' = TRUE
    /\ cpc' = [cpc EXCEPT ![c] = IF StartProceeds THEN "startState" ELSE "idle"]
    /\ UNCHANGED <<restVars, paused, pipelineState, frameMutex, frameWaiters, frameVars,
                   ballBuffer, tpc, res, activeThreads, histVars>>

\* pipeline.state.store(FRAME_COMPUTING)
StartStoreState(c) ==
    /\ cpc[c] = "startState"
    /\ pipelineState' = "FRAME_COMPUTING"
    /\ cpc' = [cpc EXCEPT ![c] = "setup1"]
    /\ UNCHANGED <<restVars, flagVars, frameMutex, frameWaiters, frameVars, ballBuffer,
                   tpc, res, activeThreads, histVars>>

\* Where a new thread begins: the monitor thread has no activeThreads count.
StartPc(t) == IF t = "monitor" THEN "loop" ELSE "entry"

\* setupThreads(): computeThread, controlThread, monitorThread = std::thread(...)
\* one after the other; each thread runs from the moment it is created.
\* Assigning to a handle that is still joinable would call std::terminate.
SetupThreads(c) ==
    \E k \in 1..3 :
      /\ cpc[c] = <<"setup1", "setup2", "setup3">>[k]
      /\ tpc[ThreadOrder[k]] = "off"
      /\ tpc' = [tpc EXCEPT ![ThreadOrder[k]] = StartPc(ThreadOrder[k])]
      /\ cpc' = [cpc EXCEPT ![c] = <<"setup2", "setup3", "idle">>[k]]
      /\ UNCHANGED <<restVars, flagVars, pipelineState, frameMutex, frameWaiters,
                     frameVars, ballBuffer, res, activeThreads, histVars>>

CallStop(c) ==
    /\ cpc[c] = "idle"
    /\ CanCallStop(c)
    /\ cpc' = [cpc EXCEPT ![c] = "stopXchg"]
    /\ UNCHANGED <<restVars, flagVars, pipelineState, frameMutex, frameWaiters,
                   frameVars, ballBuffer, tpc, res, activeThreads, histVars>>

\* Mutant of StopProceeds: running is stored without looking at its old value.
StopAlwaysProceeds == TRUE

\* Whether stop() goes on to notify and join: running.exchange(false).
StopProceeds == running

\* if (running.exchange(false)) { ... }
StopExchange(c) ==
    /\ cpc[c] = "stopXchg"
    /\ running' = FALSE
    /\ cpc' = [cpc EXCEPT ![c] = IF StopProceeds THEN "stopNotify" ELSE "idle"]
    /\ UNCHANGED <<restVars, paused, pipelineState, frameMutex, frameWaiters, frameVars,
                   ballBuffer, tpc, res, activeThreads, histVars>>

\* pipeline.frameCondition.notify_all(), made without holding frameMutex
StopNotify(c) ==
    /\ cpc[c] = "stopNotify"
    /\ frameWaiters' = {}
    /\ tpc' = Woken(frameWaiters)
    /\ cpc' = [cpc EXCEPT ![c] = "join1"]
    /\ UNCHANGED <<restVars, flagVars, pipelineState, frameMutex, frameVars, ballBuffer,
                   res, activeThreads, histVars>>

\* Mutant of JoinOrder: the control thread is not joined.
JoinSkipsControl == <<"compute", "compute", "monitor">>

\* The threads stop() joins, in order.
JoinOrder == ThreadOrder

\* if (thread.joinable()) thread.join(): join returns once the thread function
\* has returned, and leaves the handle not joinable.
StopJoin(c) ==
    \E k \in 1..3 :
      /\ cpc[c] = <<"join1", "join2", "join3">>[k]
      /\ tpc[JoinOrder[k]] \in {"off", "done"}
      /\ tpc' = [tpc EXCEPT ![JoinOrder[k]] = "off"]
      /\ cpc' = [cpc EXCEPT ![c] = <<"join2", "join3", "idle">>[k]]
      /\ UNCHANGED <<restVars, flagVars, pipelineState, frameMutex, frameWaiters,
                     frameVars, ballBuffer, res, activeThreads, histVars>>

\* pause(): paused.store(true)
Pause(c) ==
    /\ cpc[c] = "idle"
    /\ paused' = TRUE
    /\ pausedTicks' = 0
    /\ UNCHANGED <<restVars, running, pipelineState, frameMutex, frameWaiters, frameVars,
                   ballBuffer, tpc, cpc, res, activeThreads, lastTick>>

\* resume(): paused.store(false)
Resume(c) ==
    /\ cpc[c] = "idle"
    /\ paused' = FALSE
    /\ pausedTicks' = 0
    /\ cpc' = [cpc EXCEPT ![c] = "resumeNotify"]
    /\ UNCHANGED <<restVars, running, pipelineState, frameMutex, frameWaiters, frameVars,
                   ballBuffer, tpc, res, activeThreads, lastTick>>

\* resume(): pipeline.frameCondition.notify_all()
ResumeNotify(c) ==
    /\ cpc[c] = "resumeNotify"
    /\ frameWaiters' = {}
    /\ tpc' = Woken(frameWaiters)
    /\ cpc' = [cpc EXCEPT ![c] = "idle"]
    /\ UNCHANGED <<restVars, flagVars, pipelineState, frameMutex, frameVars, ballBuffer,
                   res, activeThreads, histVars>>

CallGetBalls(c) ==
    /\ cpc[c] = "idle"
    /\ cpc' = [cpc EXCEPT ![c] = "getLock"]
    /\ UNCHANGED <<restVars, flagVars, pipelineState, frameMutex, frameWaiters,
                   frameVars, ballBuffer, tpc, res, activeThreads, histVars>>

\* getBalls(): std::lock_guard<std::mutex> lock(pipeline.frameMutex)
GetBallsLock(c) ==
    /\ cpc[c] = "getLock"
    /\ TryLock(c)
    /\ frameMutex' = c
    /\ cpc' = [cpc EXCEPT ![c] = "getCopy"]
    /\ UNCHANGED <<restVars, flagVars, pipelineState, frameWaiters, frameVars,
                   ballBuffer, tpc, res, activeThreads, histVars>>

\* getBalls(): return pipeline.currentFrame.balls; the copy is made, then the
\* lock_guard's scope ends.
GetBallsCopy(c) ==
    /\ cpc[c] = "getCopy"
    /\ res' = [res EXCEPT ![c] = [valid |-> TRUE, balls |-> currentFrame]]
    /\ frameMutex' = "free"
    /\ cpc' = [cpc EXCEPT ![c] = "idle"]
    /\ UNCHANGED <<restVars, flagVars, pipelineState, frameWaiters, frameVars,
                   ballBuffer, tpc, activeThreads, histVars>>

----------------------------------------------------------------------------
\* Specifications

\* A step of the loop skeleton the computation and control threads share.
CvStep(t) ==
    \/ ThreadEntry(t)
    \/ WaitLock(t)
    \/ WaitEval(t)
    \/ WaitBlock(t)
    \/ WaitReacquire(t)
    \/ ChkRun(t)
    \/ CritLock(t)
    \/ ThreadNotify(t)
    \/ ThreadSleep(t)
    \/ ThreadExit(t)

ComputeStep ==
    \/ ComputeLoop
    \/ ComputeChkPaused
    \/ ComputeTick
    \/ ComputeTickThrows

ControlStep ==
    \/ ControlLoop
    \/ SwapMoveOut
    \/ SwapMoveAcross
    \/ SwapMoveBack
    \/ ControlDisplay

MonitorStep ==
    \/ MonitorLoop
    \/ MonitorWork

\* One step of background thread t, not counting a spurious wakeup.
ThreadStep(t) ==
    \/ t \in CvThreads /\ CvStep(t)
    \/ t = "compute" /\ ComputeStep
    \/ t = "control" /\ ControlStep
    \/ t = "monitor" /\ MonitorStep

\* A caller begins a call of the public interface.
ClientCall(c) ==
    \/ CallStart(c)
    \/ CallStop(c)
    \/ Pause(c)
    \/ Resume(c)
    \/ CallGetBalls(c)

\* A caller goes on with the call it is in.
ClientStep(c) ==
    \/ StartExchange(c)
    \/ StartStoreState(c)
    \/ SetupThreads(c)
    \/ StopExchange(c)
    \/ StopNotify(c)
    \/ StopJoin(c)
    \/ ResumeNotify(c)
    \/ GetBallsLock(c)
    \/ GetBallsCopy(c)

\* The single caller of the one-caller specifications.
MainClient == "c1"

ThreadsNext ==
    \/ \E t \in CvThreads : CvStep(t)
    \/ ComputeStep
    \/ ControlStep
    \/ MonitorStep
    \/ \E t \in CvThreads : SpuriousWakeup(t)

\* One caller of the public interface, and the background threads.
Next ==
    \/ ThreadsNext
    \/ ClientCall(MainClient)
    \/ ClientStep(MainClient)

Spec == Init /\ [][Next]_vars

\* Two callers of the public interface, and the background threads.
NextTwo ==
    \/ ThreadsNext
    \/ \E c \in Clients : ClientCall(c) \/ ClientStep(c)

SpecTwo == Init /\ [][NextTwo]_vars

\* Every background thread that can take a step eventually takes one; a caller
\* inside a call eventually takes each step that is enabled again and again (a
\* mutex that is released again and again is eventually acquired). No caller is
\* obliged to begin a call, and no spurious wakeup is obliged to happen.
Fairness ==
    /\ \A t \in Threads : WF_vars(ThreadStep(t))
    /\ SF_vars(ClientStep(MainClient))

FairSpec == Init /\ [][Next]_vars /\ Fairness

\* One caller and the background threads, with kernels that may leave a NaN
\* or an infinity behind.
NextFault ==
    \/ Next
    \/ ComputeTickCorrupt

SpecFault == Init /\ [][NextFault]_vars

----------------------------------------------------------------------------
\* Properties of the pipeline

\* The initial ball set after n physics ticks.
RECURSIVE Ticked(_)
Ticked(n) == IF n = 0 THEN InitBalls ELSE DeviceAfterUpdate(Ticked(n - 1))

\* f is the complete result of a whole number of ticks.
WholeFrame(f) == \E n \in 0..MaxTicks : f = Ticked(n)

\* f holds exactly the balls placed at construction, each once, in place.
FrameIntact(f) == Len(f) = NumBalls /\ \A i \in Balls : f[i].id = i

\* The number of ticks a complete frame has been through.
FrameTicks(f) == f[1].ticks

AllThreadsOff == \A t \in Threads : tpc[t] = "off"

AllThreadsAlive == \A t \in Threads : tpc[t] \notin {"off", "exit", "done"}

\* Everything but the callers' positions.
pipelineVars == <<running, paused, pipelineState, frameMutex, frameWaiters,
                  currentFrame, nextFrame, swapTmp, ballBuffer, tpc, res,
                  activeThreads, lastTick, pausedTicks>>

\* setupThreads never assigns to a handle that is still joinable.
NoTerminate ==
    \A c \in Clients : \A k \in 1..3 :
        cpc[c] = <<"setup1", "setup2", "setup3">>[k] => tpc[ThreadOrder[k]] = "off"

\* C1: every vector getBalls() has returned is the complete result of a whole
\* number of physics ticks applied to the initial balls: never a frame that is
\* being written, never a frame in the middle of the swap.
C1_SnapshotIsWholeFrame ==
    \A c \in Clients : res[c].valid => WholeFrame(res[c].balls)

\* A caller that already holds one snapshot asks for the next while the control
\* thread is in the middle of the swap.
C1_Witness ==
    /\ cpc["c1"] = "getLock"
    /\ res["c1"].valid
    /\ tpc["control"] = "swap2"
    /\ currentFrame = MovedFrom

\* C2: every call of stop() eventually returns.
C2_StopReturns == (cpc[MainClient] \in StopPcs) ~> (cpc[MainClient] = "idle")

\* C3: once the single caller's stop() has returned, and until start() is
\* called again, the three background threads have exited and been joined, so
\* no tick and no swap can follow.
C3_StoppedIsQuiesced ==
    [][(cpc[MainClient] = "idle" /\ ~running)
          => /\ AllThreadsOff
             /\ UNCHANGED <<ballBuffer, currentFrame, nextFrame, swapTmp,
                            pipelineState, lastTick>>]_vars

\* stop() has returned after a run in which a tick and a swap took place.
C3_Witness ==
    /\ cpc[MainClient] = "idle"
    /\ ~running
    /\ lastTick # InitBalls
    /\ pipelineState = "FRAME_DISPLAYING"
    /\ AllThreadsOff

\* The step with which the swap publishes currentFrame.
Publish == tpc["control"] = "swap3" /\ tpc'["control"] = "notify"

\* C4: the frame each swap publishes is the result of the most recently
\* completed tick, and has been through no fewer ticks than the frame it
\* replaces.
C4_PublishedIsLatestTick ==
    [][Publish => /\ currentFrame' = lastTick
                  /\ FrameTicks(currentFrame') >= FrameTicks(swapTmp)]_vars

\* A call of stop() by c returns with this step.
StopReturn(c) == cpc[c] \in {"stopXchg", "join3"} /\ cpc'[c] = "idle"

\* C5: each call of stop(), also one of two concurrent calls, returns only
\* after all background threads have terminated.
C5_EveryStopReturnsQuiesced ==
    [][\A c \in Clients : StopReturn(c) => \A t \in Threads : tpc'[t] = "off"]_vars

\* C6: start() on a running simulation returns at once without creating a
\* thread and without touching the pipeline; and setupThreads only ever
\* creates a thread in a handle that holds none.
C6_StartWhileRunningIsNoOp ==
    [][/\ NoTerminate
       /\ \A c \in Clients :
            (cpc[c] = "startXchg" /\ running /\ cpc'[c] # cpc[c])
                => (cpc'[c] = "idle" /\ UNCHANGED pipelineVars)]_vars

\* start() is called while all three threads of the earlier start() are alive.
C6_Witness ==
    /\ cpc[MainClient] = "startXchg"
    /\ running
    /\ AllThreadsAlive
    /\ lastTick # InitBalls

\* C7: stop() on a simulation that is not running (a second stop() in a row,
\* or a stop() before any start()) returns at once, joins nothing and changes
\* nothing, and the simulation is Stopped.
C7_SecondStopIsNoOp ==
    [][(cpc[MainClient] = "stopXchg" /\ ~running /\ cpc'[MainClient] # "stopXchg")
          => /\ cpc'[MainClient] = "idle"
             /\ UNCHANGED pipelineVars
             /\ AllThreadsOff]_vars

\* stop() is called again after a run that an earlier stop() has ended.
C7_Witness ==
    /\ cpc[MainClient] = "stopXchg"
    /\ ~running
    /\ lastTick # InitBalls

\* C8 as stated: between the return of pause() and the next resume() no
\* physics update is applied.
C8_NoTickWhilePaused == pausedTicks = 0

\* C8 as amended: after pause() has returned at most one physics update is
\* applied before the next resume(), and while the simulation is running and
\* paused all three background threads are alive.
C8_AtMostOneTickWhilePaused ==
    /\ pausedTicks <= 1
    /\ (running /\ paused /\ \A c \in Clients : cpc[c] \notin StartPcs)
          => AllThreadsAlive

\* The tick that was under way when pause() returned has been applied, and the
\* computation thread is polling the paused flag.
C8_Witness ==
    /\ running
    /\ paused
    /\ pausedTicks = 1
    /\ tpc["compute"] = "chkPaused"
    /\ cpc[MainClient] = "idle"

\* C9: outside the control thread's swap, currentFrame and nextFrame each hold
\* exactly the balls placed at construction, and every getBalls() result has
\* the construction-time ball count.
C9_BallsPreserved ==
    /\ tpc["control"] \notin {"swap2", "swap3"}
          => FrameIntact(currentFrame) /\ FrameIntact(nextFrame)
    /\ \A c \in Clients : res[c].valid => Len(res[c].balls) = NumBalls

\* A snapshot taken after a swap, with the simulation paused and then stopped.
C9_Witness ==
    /\ res["c2"].valid
    /\ pipelineState = "FRAME_DISPLAYING"
    /\ paused
    /\ ~running
    /\ AllThreadsOff

\* The positions at which a background thread is waiting for something.
WaitingPcs == {"off", "done", "blocked", "wake", "waitLock", "critLock"}

\* C10: every call of getBalls() eventually returns, and frameMutex is never
\* held by a thread that is waiting.
C10_GetBallsReturns ==
    /\ [](\A t \in Threads : frameMutex = t => tpc[t] \notin WaitingPcs)
    /\ (cpc[MainClient] = "getLock") ~> (cpc[MainClient] = "idle")

\* getBalls() has to wait for frameMutex, which the control thread holds on
\* its way to block in frameCondition.wait.
C10_Witness ==
    /\ cpc[MainClient] = "getLock"
    /\ frameMutex = "control"
    /\ tpc["control"] = "waitBlock"
    /\ paused

----------------------------------------------------------------------------
\* Failed and corrupt ticks

\* The step with which a call of updateSimulation ends in an exception.
FailedTick == tpc["compute"] = "tick" /\ tpc'["compute"] \notin {"tick", "notify"}

\* The step with which a call of updateSimulation returns.
CompletedTick == tpc["compute"] = "tick" /\ tpc'["compute"] = "notify"

\* C17: a physics tick that fails leaves running, both frames and the pipeline
\* state as they were, releases frameMutex, and puts the computation thread
\* back at the head of its loop, from where it attempts the next tick.
C17_FailedTickIsSkipped ==
    [][FailedTick => /\ UNCHANGED <<running, nextFrame, currentFrame, pipelineState>>
                     /\ frameMutex' = "free"
                     /\ tpc'["compute"] = "loop"]_vars

\* The computation thread attempts a tick after a call that failed once its
\* kernels had run, with no tick completed so far.
C17_Witness ==
    /\ running
    /\ tpc["compute"] = "tick"
    /\ lastTick = InitBalls
    /\ ballBuffer # InitBalls
    /\ pipelineState = "FRAME_COMPUTING"

\* C18: failed ticks do not go on for ever. If three failures in a row ended
\* the run, then in a behaviour with infinitely many failed ticks a tick would
\* complete, or running would be false, again and again.
C18_FailuresEscalate ==
    ([]<><<FailedTick>>_vars) => (([]<>~running) \/ ([]<><<CompletedTick>>_vars))

\* f holds a ball with a NaN or infinite component.
HasNaN(f) == \E i \in DOMAIN f : f[i].nan

----------------------------------------------------------------------------
\* setConfig against the tick's upload of the constants

\* The pipeline's variables other than frameMutex, and the other variants.
simVars == <<running, paused, pipelineState, frameWaiters, currentFrame,
             nextFrame, swapTmp, ballBuffer, tpc, cpc, res, activeThreads,
             lastTick, pausedTicks, taskVars, gridVars, kernelVars,
             laterVars>>

\* The order in which setConfig stores the three constants.
StoreOrder == <<"gravity", "restitution", "dt">>

\* The order in which the write of sizeof(SimConstants) bytes at &constants
\* reads them.
UploadOrder == <<"dt", "gravity", "restitution">>

\* The position after field f of order has been dealt with.
After(order, f) ==
    LET k == CHOOSE k \in 1..3 : order[k] = f
    IN  IF k = 3 THEN "idle" ELSE order[k + 1]

\* A caller calls setConfig(newConfig) with a configuration not seen before.
SetConfigCall ==
    /\ cfgPc["setConfig"] = "idle"
    /\ cfgArg < MaxConfigs
    /\ cfgArg' = cfgArg + 1
    /\ cfgPc' = [cfgPc EXCEPT !["setConfig"] = "lock"]
    /\ UNCHANGED <<simVars, frameMutex, constants, constantsBuffer, ballsMutex>>

\* std::lock_guard<std::mutex> lock(ballsMutex); config = newConfig
SetConfigLock ==
    /\ cfgPc["setConfig"] = "lock"
    /\ ballsMutex = "free"
    /\ ballsMutex' = "setConfig"
    /\ cfgPc' = [cfgPc EXCEPT !["setConfig"] = StoreOrder[1]]
    /\ UNCHANGED <<simVars, frameMutex, constants, constantsBuffer, cfgArg>>

\* constants.gravity = ...; constants.restitution = ...; constants.dt = ...;
\* the lock_guard's scope ends after the last store.
SetConfigStore ==
    /\ cfgPc["setConfig"] \in ConstantFields
    /\ ballsMutex = "setConfig"
    /\ constants' = [constants EXCEPT ![cfgPc["setConfig"]] = cfgArg]
    /\ cfgPc' = [cfgPc EXCEPT !["setConfig"] = After(StoreOrder, @)]
    /\ ballsMutex' = IF After(StoreOrder, cfgPc["setConfig"]) = "idle"
                     THEN "free" ELSE ballsMutex
    /\ UNCHANGED <<simVars, frameMutex, constantsBuffer, cfgArg>>

\* The computation thread enters the tick:
\* std::lock_guard<std::mutex> lock(pipeline.frameMutex)
ConfigTickLock ==
    /\ cfgPc["tick"] = "idle"
    /\ TryLock("compute")
    /\ frameMutex' = "compute"
    /\ cfgPc' = [cfgPc EXCEPT !["tick"] = UploadOrder[1]]
    /\ UNCHANGED <<simVars, constants, constantsBuffer, ballsMutex, cfgArg>>

\* queue.enqueueWriteBuffer(constantsBuffer, CL_FALSE, 0, sizeof(SimConstants),
\* &constants) copies the constants field by field, at the latest in
\* queue.finish(); the tick's lock_guard ends after the call.
ConfigTickUpload ==
    /\ cfgPc["tick"] \in ConstantFields
    /\ frameMutex = "compute"
    /\ constantsBuffer' =
           [constantsBuffer EXCEPT ![cfgPc["tick"]] = constants[cfgPc["tick"]]]
    /\ cfgPc' = [cfgPc EXCEPT !["tick"] = After(UploadOrder, @)]
    /\ frameMutex' = IF After(UploadOrder, cfgPc["tick"]) = "idle"
                     THEN "free" ELSE frameMutex
    /\ UNCHANGED <<simVars, constants, ballsMutex, cfgArg>>

NextConfig ==
    \/ SetConfigCall
    \/ SetConfigLock
    \/ SetConfigStore
    \/ ConfigTickLock
    \/ ConfigTickUpload

SpecConfig == Init /\ [][NextConfig]_vars

\* C20: setConfig's stores and the tick's reading of the constants exclude
\* each other, so that the constants every finished upload has handed to the
\* kernels are those of one configuration: all old or all new.
C20_TickSeesOneConfig ==
    cfgPc["tick"] = "idle"
        => \E v \in 0..MaxConfigs : constantsBuffer = UniformConstants(v)


\* The configuration that the v-th setConfig call brings, and for v = 0 the
\* constructor's config::Physics values. dt is in microseconds, gravity and
\* restitution are in hundredths. Call 1 brings other valid values; the later
\* calls bring a restitution above 1, a gravity above 100, a time step of 0.
NewConfig(v) ==
    [dt |-> IF v = 1 THEN 8333 ELSE IF v > 1 /\ v % 3 = 1 THEN 0 ELSE 4167,
     gravity |-> IF v > 1 /\ v % 3 = 0 THEN 20000 ELSE 981,
     restitution |-> IF v % 3 = 2 THEN 150 ELSE 80]

\* Simulation::validateConfig: TRUE when it returns, FALSE when it throws.
ValidateConfig(screenWidth, screenHeight, c) ==
    /\ ~(screenWidth <= 0 \/ screenHeight <= 0)
    /\ ~(c.gravity < -10000 \/ c.gravity > 10000)
    /\ ~(c.restitution < 0 \/ c.restitution > 100)
    /\ ~(c.dt <= 0 \/ c.dt > 100000)
    /\ ~(240 < 60)

\* The values that Simulation::constants holds.
ConstantValues == [f \in ConstantFields |-> NewConfig(constants[f])[f]]

\* C21: setConfig rejects an invalid configuration and leaves the constants
\* as they were, so that the constants always pass validateConfig.
C21_InvalidConfigRejected == ValidateConfig(1400, 900, ConstantValues)

----------------------------------------------------------------------------
\* The per-ball task variant: Ball::run, one task per ball

\* Everything the task variant leaves alone.
notTaskVars == <<pipelineVars, cpc, configVars, gridVars, kernelVars,
                 laterVars>>

\* The contact normal's y component: dy / distance, with the fixed normal
\* (1, 0) for coincident centres.
Ny(dy) == IF dy = 0 THEN 0 ELSE IF dy > 0 THEN 1 ELSE -1

\* velAlongNormal = rvx * nx + rvy * ny, with rvx = 0
VelAlongNormal(l) == (l.vo - l.vs) * Ny(l.dy)

\* impulsey / mass for two balls of equal mass:
\* j = -(1 + RESTITUTION) * velAlongNormal / (2 / mass), RESTITUTION = 0.9
DeltaV(l) == ((-19 * VelAlongNormal(l)) \div 20) * Ny(l.dy)

\* The ball the for loop of checkCollisionWithBalls turns to after ball k,
\* or 0 at the end of the vector; ball i itself is skipped.
NextOther(i, k) ==
    IF \E o \in TaskBalls : o > k /\ o # i
    THEN CHOOSE o \in TaskBalls :
             /\ o > k /\ o # i
             /\ \A q \in TaskBalls : (q > k /\ q # i) => o <= q
    ELSE 0

\* Position and locals of ball i's task once it is done with ball k.
AfterOther(i, k) ==
    IF NextOther(i, k) = 0 THEN <<"ready", NoLocals>>
    ELSE <<"ldY", [NoLocals EXCEPT !.k = NextOther(i, k)]>>

\* while (running_) { while (!proceed_.load()) yield(); proceed_.store(false);
RunWait(i) ==
    /\ \/ /\ bpc[i] = "while"
          /\ bpc' = [bpc EXCEPT ![i] = IF running_[i] THEN "spin" ELSE "done"]
          /\ UNCHANGED proceed_
       \/ /\ bpc[i] = "spin"
          /\ proceed_[i]
          /\ bpc' = [bpc EXCEPT ![i] = "clear"]
          /\ UNCHANGED proceed_
       \/ /\ bpc[i] = "clear"
          /\ proceed_' = [proceed_ EXCEPT ![i] = FALSE]
          /\ bpc' = [bpc EXCEPT ![i] = "gravity"]
    /\ UNCHANGED <<notTaskVars, running_, updateReady_, y_, vy_, loc, upc,
                   nInt, nUpdates, nImpulses>>

\* vy_.fetch_and_add(GRAVITY * dt); updatePosition(dt), which is
\* y_.fetch_and_add(vy_.load() * dt)
RunIntegrate(i) ==
    /\ \/ /\ bpc[i] = "gravity"
          /\ vy_' = [vy_ EXCEPT ![i] = @ + GravityStep]
          /\ bpc' = [bpc EXCEPT ![i] = "ldVy"]
          /\ UNCHANGED <<y_, loc, nInt>>
       \/ /\ bpc[i] = "ldVy"
          /\ loc' = [loc EXCEPT ![i].vs = vy_[i]]
          /\ bpc' = [bpc EXCEPT ![i] = "addY"]
          /\ UNCHANGED <<y_, vy_, nInt>>
       \/ /\ bpc[i] = "addY"
          /\ y_' = [y_ EXCEPT ![i] = @ + (loc[i].vs \div StepsPerSecond)]
          /\ nInt' = [nInt EXCEPT ![i] = @ + 1]
          /\ loc' = [loc EXCEPT ![i] = NoLocals]
          /\ bpc' = [bpc EXCEPT ![i] = "boundary"]
          /\ UNCHANGED vy_
    /\ UNCHANGED <<notTaskVars, running_, proceed_, updateReady_, upc,
                   nUpdates, nImpulses>>

\* |v|
Abs(v) == IF v < 0 THEN -v ELSE v

\* checkCollisionWithBoundary(1400, 900): the y half; x is inside the screen.
\* std::abs(vy) * RESTITUTION, RESTITUTION = 0.9
RunBoundary(i) ==
    /\ bpc[i] = "boundary"
    /\ IF y_[i] - Radius < 0
       THEN /\ y_' = [y_ EXCEPT ![i] = Radius]
            /\ vy_' = [vy_ EXCEPT ![i] = (9 * Abs(@)) \div 10]
       ELSE IF y_[i] + Radius > ScreenHeight
       THEN /\ y_' = [y_ EXCEPT ![i] = ScreenHeight - Radius]
            /\ vy_' = [vy_ EXCEPT ![i] = -((9 * Abs(@)) \div 10)]
       ELSE UNCHANGED <<y_, vy_>>
    /\ bpc' = [bpc EXCEPT ![i] = AfterOther(i, 0)[1]]
    /\ loc' = [loc EXCEPT ![i] = AfterOther(i, 0)[2]]
    /\ UNCHANGED <<notTaskVars, running_, proceed_, updateReady_, upc, nInt,
                   nUpdates, nImpulses>>

\* checkCollisionWithBalls: one round of the for loop, with ball loc[i].k
CheckCollisionWithBalls(i) ==
    LET o == loc[i].k
        dy == y_[o] - y_[i]
        l == [loc[i] EXCEPT !.vs = vy_[i]]
    IN
    /\ \/ /\ bpc[i] = "ldY"
          /\ IF dy * dy < (2 * Radius) * (2 * Radius)
             THEN /\ loc' = [loc EXCEPT ![i].dy = dy]
                  /\ bpc' = [bpc EXCEPT ![i] = "ldVo"]
             ELSE /\ loc' = [loc EXCEPT ![i] = AfterOther(i, o)[2]]
                  /\ bpc' = [bpc EXCEPT ![i] = AfterOther(i, o)[1]]
          /\ UNCHANGED <<vy_, nImpulses>>
       \/ /\ bpc[i] = "ldVo"
          /\ loc' = [loc EXCEPT ![i].vo = vy_[o]]
          /\ bpc' = [bpc EXCEPT ![i] = "ldVs"]
          /\ UNCHANGED <<vy_, nImpulses>>
       \/ /\ bpc[i] = "ldVs"
          /\ IF VelAlongNormal(l) > 0
             THEN /\ loc' = [loc EXCEPT ![i] = AfterOther(i, o)[2]]
                  /\ bpc' = [bpc EXCEPT ![i] = AfterOther(i, o)[1]]
             ELSE /\ loc' = [loc EXCEPT ![i] = l]
                  /\ bpc' = [bpc EXCEPT ![i] = "subV"]
          /\ UNCHANGED <<vy_, nImpulses>>
       \/ /\ bpc[i] = "subV"
          /\ vy_' = [vy_ EXCEPT ![i] = @ - DeltaV(loc[i])]
          /\ nImpulses' = [nImpulses EXCEPT ![{i, o}] =
                              IF DeltaV(loc[i]) # 0 THEN @ + 1 ELSE @]
          /\ bpc' = [bpc EXCEPT ![i] = "addV"]
          /\ UNCHANGED loc
       \/ /\ bpc[i] = "addV"
          /\ vy_' = [vy_ EXCEPT ![o] = @ + DeltaV(loc[i])]
          /\ loc' = [loc EXCEPT ![i] = AfterOther(i, o)[2]]
          /\ bpc' = [bpc EXCEPT ![i] = AfterOther(i, o)[1]]
          /\ UNCHANGED nImpulses
    /\ UNCHANGED <<notTaskVars, running_, proceed_, updateReady_, y_, upc,
                   nInt, nUpdates>>

\* updateReady_.store(true), and back to while (running_)
RunReady(i) ==
    /\ bpc[i] = "ready"
    /\ updateReady_' = [updateReady_ EXCEPT ![i] = TRUE]
    /\ bpc' = [bpc EXCEPT ![i] = "while"]
    /\ UNCHANGED <<notTaskVars, running_, proceed_, y_, vy_, loc, upc, nInt,
                   nUpdates, nImpulses>>

\* The caller's position after ball i of a loop over balls_: ball i + 1 of
\* the same loop, or after the last ball the position then.
NextBall(op, i, then) ==
    IF i < NumTasks THEN [op |-> op, i |-> i + 1] ELSE then

\* Simulation::start(): Ball::start() for each ball sets running_ and
\* enqueues run(). The program starts a Simulation once.
SimStart ==
    \/ /\ upc = Idle
       /\ \A i \in TaskBalls : bpc[i] = "none"
       /\ upc' = [op |-> "start", i |-> 1]
       /\ UNCHANGED <<notTaskVars, running_, proceed_, updateReady_, y_, vy_,
                      bpc, loc, nInt, nUpdates, nImpulses>>
    \/ /\ upc.op = "start"
       /\ running_' = [running_ EXCEPT ![upc.i] = TRUE]
       /\ bpc' = [bpc EXCEPT ![upc.i] = "while"]
       /\ upc' = NextBall("start", upc.i, Idle)
       /\ UNCHANGED <<notTaskVars, proceed_, updateReady_, y_, vy_, loc, nInt,
                      nUpdates, nImpulses>>

\* Mutant of WaitsFor: update() does not wait for the last ball.
WaitsForAllButLast(i) == i < NumTasks

\* The balls update() waits for: all of them.
WaitsFor(i) == TRUE

\* Simulation::update(): signalUpdate() for each ball, then waitForUpdate()
\* for each ball, which spins until updateReady_ and then clears it.
SimUpdate ==
    \/ /\ upc = Idle
       /\ nUpdates < MaxUpdates
       /\ nUpdates' = nUpdates + 1
       /\ nImpulses' = [p \in Pairs |-> 0]
       /\ upc' = [op |-> "signal", i |-> 1]
       /\ UNCHANGED <<notTaskVars, running_, proceed_, updateReady_, y_, vy_,
                      bpc, loc, nInt>>
    \/ /\ upc.op = "signal"
       /\ proceed_' = [proceed_ EXCEPT ![upc.i] = TRUE]
       /\ upc' = NextBall("signal", upc.i, [op |-> "wait", i |-> 1])
       /\ UNCHANGED <<notTaskVars, running_, updateReady_, y_, vy_, bpc, loc,
                      nInt, nUpdates, nImpulses>>
    \/ /\ upc.op = "wait"
       /\ WaitsFor(upc.i) => updateReady_[upc.i]
       /\ upc' = [op |-> "clearReady", i |-> upc.i]
       /\ UNCHANGED <<notTaskVars, running_, proceed_, updateReady_, y_, vy_,
                      bpc, loc, nInt, nUpdates, nImpulses>>
    \/ /\ upc.op = "clearReady"
       /\ updateReady_' = [updateReady_ EXCEPT ![upc.i] = FALSE]
       /\ upc' = NextBall("wait", upc.i, Idle)
       /\ UNCHANGED <<notTaskVars, running_, proceed_, y_, vy_, bpc, loc,
                      nInt, nUpdates, nImpulses>>

\* Simulation::stop(): Ball::stop() for each ball stores running_ = false,
\* then proceed_ = true. The program stops a Simulation it has started.
SimStop ==
    \/ /\ upc = Idle
       /\ \A i \in TaskBalls : bpc[i] # "none"
       /\ nImpulses' = [p \in Pairs |-> 0]
       /\ upc' = [op |-> "stopRunning", i |-> 1]
       /\ UNCHANGED <<notTaskVars, running_, proceed_, updateReady_, y_, vy_,
                      bpc, loc, nInt, nUpdates>>
    \/ /\ upc.op = "stopRunning"
       /\ running_' = [running_ EXCEPT ![upc.i] = FALSE]
       /\ upc' = [op |-> "stopProceed", i |-> upc.i]
       /\ UNCHANGED <<notTaskVars, proceed_, updateReady_, y_, vy_, bpc, loc,
                      nInt, nUpdates, nImpulses>>
    \/ /\ upc.op = "stopProceed"
       /\ proceed_' = [proceed_ EXCEPT ![upc.i] = TRUE]
       /\ upc' = NextBall("stopRunning", upc.i, Idle)
       /\ UNCHANGED <<notTaskVars, running_, updateReady_, y_, vy_, bpc, loc,
                      nInt, nUpdates, nImpulses>>

\* The ball tasks and a caller that starts the simulation and updates it.
NextTaskRun ==
    \/ \E i \in TaskBalls : RunWait(i)
    \/ \E i \in TaskBalls : RunIntegrate(i)
    \/ \E i \in TaskBalls : RunBoundary(i)
    \/ \E i \in TaskBalls : CheckCollisionWithBalls(i)
    \/ \E i \in TaskBalls : RunReady(i)
    \/ SimStart
    \/ SimUpdate

SpecTaskRun == Init /\ [][NextTaskRun]_vars

\* The same with a caller that also stops the simulation.
NextTask ==
    \/ NextTaskRun
    \/ SimStop

SpecTask == Init /\ [][NextTask]_vars

\* Ball i's task loads the position or the velocity of another ball.
ReadsOther(i) == bpc[i] \in {"ldY", "ldVo"} /\ bpc'[i] # bpc[i]

\* C13: when a ball's checkCollisionWithBalls reads another ball's position
\* or velocity, that ball has finished at least as many integrations as the
\* reader, so it has integrated for the reader's tick.
C13_IntegrationBeforeCollision ==
    [][\A i \in TaskBalls : ReadsOther(i) => nInt[loc[i].k] >= nInt[i]]_vars

\* C14: within one tick no pair of balls receives more than one impulse.
C14_PairResolvedOnce == \A p \in Pairs : nImpulses[p] <= 1

\* The caller is outside every call, all balls started and none stopped.
BetweenUpdates == upc = Idle /\ \A i \in TaskBalls : running_[i]

\* C15: whenever the caller of a started simulation is between two calls,
\* every ball has performed exactly one tick for each update() made so far
\* and waits for the next signal with both flags cleared, and no step
\* changes a ball's position or velocity.
C15_UpdateIsBarrier ==
    [][BetweenUpdates =>
          /\ \A i \in TaskBalls :
                /\ nInt[i] = nUpdates
                /\ bpc[i] \in {"while", "spin"}
                /\ ~proceed_[i] /\ ~updateReady_[i]
          /\ UNCHANGED <<y_, vy_>>]_vars

\* The second update() has returned, after ticks in which the collision
\* with ball 2 has turned ball 1 round.
C15_Witness ==
    /\ BetweenUpdates
    /\ nUpdates = MaxUpdates
    /\ vy_[1] < 0

\* C16: once stop() has returned every ball's task has finished, and no
\* ball's position or velocity changes any more.
C16_StopEndsTasks ==
    [][(upc = Idle /\ \A i \in TaskBalls : bpc[i] # "none" /\ ~running_[i])
          => /\ \A i \in TaskBalls : bpc[i] = "done"
             /\ UNCHANGED <<y_, vy_>>]_vars

----------------------------------------------------------------------------
\* The grid/mutex variant: Ball::detectCollisions, Grid, Ball::getPosition

\* Everything the grid variant leaves alone.
notGridVars == <<pipelineVars, cpc, configVars, taskVars, kernelVars,
                 laterVars>>

\* A call is the sequence of mutex operations it makes. "scoped" is the
\* constructor of std::scoped_lock on two mutexes, "unscoped" its
\* destructor.
Instr(k, a, b) == [k |-> k, a |-> a, b |-> b]

\* Ball::getPosition: a lock_guard on the ball's mutex around the reads.
GetPosition(b) == <<Instr("lock", b, 0), Instr("unlock", b, 0)>>

\* Grid::insertBall: getPosition has returned before the cell is locked.
InsertBall(b, c) ==
    GetPosition(b)
        \o <<Instr("lock", CellMtx(c), 0), Instr("unlock", CellMtx(c), 0)>>

\* Grid::getPotentialCollisions: getPosition, then the neighbouring cells
\* one at a time, each under its own lock_guard.
GetPotentialCollisions(b) ==
    GetPosition(b)
        \o [n \in 1..(2 * NumCells) |->
              Instr(IF n % 2 = 1 THEN "lock" ELSE "unlock",
                    CellMtx((n + 1) \div 2), 0)]

\* The n-th potential collision of ball b: every other ball of the cells.
Other(b, n) == IF n < b THEN n ELSE n + 1

FirstIsThis(b, o) == b
\* first after the swap: the ball of the pair with the lesser id.
First(b, o) == IF o < b THEN o ELSE b

Second(b, o) == IF First(b, o) = b THEN o ELSE b

\* Ball::detectCollisions: the potential collisions are collected first;
\* then each pair is resolved under std::scoped_lock(first, second).
DetectCollisions(b) ==
    GetPotentialCollisions(b)
        \o [n \in 1..(2 * (NumGridBalls - 1)) |->
              LET o == Other(b, (n + 1) \div 2)
              IN  Instr(IF n % 2 = 1 THEN "scoped" ELSE "unscoped",
                        First(b, o), Second(b, o))]

Busy(t) == gpc[t].prog # <<>>

Cur(t) == gpc[t].prog[gpc[t].pc]

At(t, k) == Busy(t) /\ Cur(t).k = k

Held(t) == {m \in GridMutexes : gridMtx[m] = t}

\* The thread after the operation it is at; the call returns after its
\* last operation.
Advance(t) ==
    IF gpc[t].pc = Len(gpc[t].prog)
    THEN NoCall
    ELSE [gpc[t] EXCEPT !.pc = @ + 1, !.blockOn = 0, !.mode = "none"]

\* A thread starts one of the four calls. Thread t works on ball t;
\* getPosition is called on any ball.
GridCall(t) ==
    /\ ~Busy(t)
    /\ \E prog \in {DetectCollisions(t), GetPotentialCollisions(t)}
                     \cup {InsertBall(t, c) : c \in 1..NumCells}
                     \cup {GetPosition(b) : b \in GridBalls} :
          gpc' = [gpc EXCEPT ![t] = [NoCall EXCEPT !.prog = prog]]
    /\ UNCHANGED <<gridMtx, notGridVars>>

\* std::lock_guard's constructor: blocks until the mutex is free.
GridLock(t) ==
    /\ At(t, "lock")
    /\ gridMtx[Cur(t).a] = 0
    /\ gridMtx' = [gridMtx EXCEPT ![Cur(t).a] = t]
    /\ gpc' = [gpc EXCEPT ![t] = Advance(t)]
    /\ UNCHANGED notGridVars

GridUnlock(t) ==
    /\ At(t, "unlock")
    /\ gridMtx' = [gridMtx EXCEPT ![Cur(t).a] = 0]
    /\ gpc' = [gpc EXCEPT ![t] = Advance(t)]
    /\ UNCHANGED notGridVars

\* The mutex of the pair that std::lock blocks on while it holds neither:
\* the first argument, or after a failed try_lock the one that failed.
ScopedTarget(t) == IF gpc[t].blockOn = 0 THEN Cur(t).a ELSE gpc[t].blockOn

\* The mutex of the pair the thread does not hold yet.
ScopedOther(t) == IF gridMtx[Cur(t).a] = t THEN Cur(t).b ELSE Cur(t).a

\* std::scoped_lock's constructor, as std::lock. The algorithm is the
\* library's choice: having locked the first argument it either blocks on
\* the second ("lock"), or tries it and on failure releases what it holds
\* and blocks on the mutex that failed ("try").
ScopedLock(t) ==
    /\ At(t, "scoped")
    /\ IF Held(t) \cap {Cur(t).a, Cur(t).b} = {}
       THEN /\ gridMtx[ScopedTarget(t)] = 0
            /\ gridMtx' = [gridMtx EXCEPT ![ScopedTarget(t)] = t]
            /\ \E mode \in IF ScopedTarget(t) = Cur(t).a
                           THEN {"lock", "try"} ELSE {"try"} :
                  gpc' = [gpc EXCEPT ![t].mode = mode]
       ELSE \/ /\ gridMtx[ScopedOther(t)] = 0
               /\ gridMtx' = [gridMtx EXCEPT ![ScopedOther(t)] = t]
               /\ gpc' = [gpc EXCEPT ![t] = Advance(t)]
            \/ /\ gridMtx[ScopedOther(t)] # 0
               /\ gpc[t].mode = "try"
               /\ gridMtx' = [m \in GridMutexes |->
                                IF gridMtx[m] = t /\ m \in {Cur(t).a, Cur(t).b}
                                THEN 0 ELSE gridMtx[m]]
               /\ gpc' = [gpc EXCEPT ![t].blockOn = ScopedOther(t),
                                     ![t].mode = "none"]
    /\ UNCHANGED notGridVars

\* std::scoped_lock's destructor, after the pair has been resolved.
ScopedUnlock(t) ==
    /\ At(t, "unscoped")
    /\ gridMtx' = [m \in GridMutexes |->
                     IF m \in {Cur(t).a, Cur(t).b} THEN 0 ELSE gridMtx[m]]
    /\ gpc' = [gpc EXCEPT ![t] = Advance(t)]
    /\ UNCHANGED notGridVars

NextGrid ==
    \E t \in GridBalls :
        \/ GridCall(t)
        \/ GridLock(t)
        \/ GridUnlock(t)
        \/ ScopedLock(t)
        \/ ScopedUnlock(t)

SpecGrid == Init /\ [][NextGrid]_vars

\* The mutex a thread is blocked on, 0 if it is not blocked.
WaitsOn(t) ==
    IF At(t, "lock")
    THEN IF gridMtx[Cur(t).a] # 0 THEN Cur(t).a ELSE 0
    ELSE IF ~At(t, "scoped") THEN 0
    ELSE IF Held(t) \cap {Cur(t).a, Cur(t).b} = {}
    THEN IF gridMtx[ScopedTarget(t)] # 0 THEN ScopedTarget(t) ELSE 0
    ELSE IF gpc[t].mode = "lock" /\ gridMtx[ScopedOther(t)] # 0
    THEN ScopedOther(t) ELSE 0

\* Every thread of S waits for a mutex that a thread of S holds.
Deadlocked(S) ==
    \A t \in S : WaitsOn(t) # 0 /\ gridMtx[WaitsOn(t)] \in S

----------------------------------------------------------------------------
\* The detectCollisions kernel: one launch, one work-item per ball

\* Everything the kernel leaves alone.
notKernelVars == <<pipelineVars, cpc, configVars, taskVars, gridVars,
                   laterVars>>

\* distSquared < minDist * minDist.
Overlap(b1, b2) ==
    (b2.x - b1.x) * (b2.x - b1.x)
        < (b1.radius + b2.radius) * (b1.radius + b2.radius)

\* Mutant of Distance: no replacement for coincident centres.
DistanceRaw(b1, b2) == Abs(b2.x - b1.x)
\* distance, after the replacement made for coincident centres.
Distance(b1, b2) ==
    IF b2.x = b1.x THEN b1.radius + b2.radius ELSE Abs(b2.x - b1.x)

\* normal = delta / distance, (1, 0) for coincident centres.
Normal(b1, b2) == IF b2.x < b1.x THEN -1 ELSE 1

\* The y component of normal: the centres lie on the x axis.
NormalY(b1, b2) == 0

KernelVelAlongNormal(b1, b2) ==
    (b2.v - b1.v) * Normal(b1, b2) + (b2.w - b1.w) * NormalY(b1, b2)

ImpulseUndivided(b1, b2) ==
    ((100 + kRestitution) * (-KernelVelAlongNormal(b1, b2))) \div 100
\* impulseMagnitude: -(1 + restitution) * velAlongNormal divided by
\* 1 / ball1.mass + 1 / ball2.mass.
ImpulseMagnitude(b1, b2) ==
    ((100 + kRestitution) * (-KernelVelAlongNormal(b1, b2))
         * b1.mass * b2.mass)
        \div (100 * (b1.mass + b2.mass))

\* The x component of impulse = impulseMagnitude * normal.
Impulse(b1, b2) == ImpulseMagnitude(b1, b2) * Normal(b1, b2)

\* The x component of correction, with percent = 0.8.
Correction(b1, b2) ==
    (((b1.radius + b2.radius - Distance(b1, b2)) * b1.mass * b2.mass * 4)
         \div (5 * (b1.mass + b2.mass)))
        * Normal(b1, b2)

Resolved1Fresh(b1, b2, pair) ==
    [NoBall EXCEPT !.v = b1.v - Impulse(b1, b2) \div b1.mass,
                   !.x = b1.x - Correction(b1, b2) \div b1.mass,
                   !.resolved = b1.resolved \cup {pair}]
\* ball1 and ball2 after the impulse and the positional correction.
Resolved1(b1, b2, pair) ==
    [b1 EXCEPT !.v = @ - Impulse(b1, b2) \div b1.mass,
               !.w = @ - (ImpulseMagnitude(b1, b2) * NormalY(b1, b2))
                             \div b1.mass,
               !.x = @ - Correction(b1, b2) \div b1.mass,
               !.resolved = @ \cup {pair}]

Resolved2(b1, b2, pair) ==
    [b2 EXCEPT !.v = @ + Impulse(b1, b2) \div b2.mass,
               !.w = @ + (ImpulseMagnitude(b1, b2) * NormalY(b1, b2))
                             \div b2.mass,
               !.x = @ + Correction(b1, b2) \div b2.mass,
               !.resolved = @ \cup {pair}]

\* The work-item at the next iteration of its for loop.
NextPair(w) ==
    /\ wpc' = [wpc EXCEPT ![w] = LoopHead(w, wloc[w].pair + 1)]
    /\ wloc' = [wloc EXCEPT ![w].pair = @ + 1]

\* Ball ball1 = balls[i], after the bounds test on i and j.
KernelLoad1(w) ==
    /\ wpc[w] = "load1"
    /\ IF PairI(wloc[w].pair, 0) >= NumKernelBalls
          \/ PairJ(wloc[w].pair) >= NumKernelBalls
       THEN NextPair(w)
       ELSE /\ wloc' = [wloc EXCEPT
                          ![w].ball1 = kBalls[PairI(wloc[w].pair, 0)]]
            /\ wpc' = [wpc EXCEPT ![w] = "load2"]
    /\ UNCHANGED <<kBalls, kRestitution, kInput, notKernelVars>>

\* Ball ball2 = balls[j], and the arithmetic on the two private copies.
KernelLoad2(w) ==
    /\ wpc[w] = "load2"
    /\ LET b1 == wloc[w].ball1
           b2 == kBalls[PairJ(wloc[w].pair)]
       IN  IF Overlap(b1, b2) /\ KernelVelAlongNormal(b1, b2) < 0
           THEN /\ wloc' = [wloc EXCEPT
                      ![w].ball1 = Resolved1(b1, b2, wloc[w].pair),
                      ![w].ball2 = Resolved2(b1, b2, wloc[w].pair)]
                /\ wpc' = [wpc EXCEPT ![w] = "store1"]
           ELSE NextPair(w)
    /\ UNCHANGED <<kBalls, kRestitution, kInput, notKernelVars>>

\* balls[i] = ball1.
KernelStore1(w) ==
    /\ wpc[w] = "store1"
    /\ kBalls' = [kBalls EXCEPT ![PairI(wloc[w].pair, 0)] = wloc[w].ball1]
    /\ wpc' = [wpc EXCEPT ![w] = "store2"]
    /\ UNCHANGED <<wloc, kRestitution, kInput, notKernelVars>>

\* balls[j] = ball2, the end of the loop body.
KernelStore2(w) ==
    /\ wpc[w] = "store2"
    /\ kBalls' = [kBalls EXCEPT ![PairJ(wloc[w].pair)] = wloc[w].ball2]
    /\ wpc' = [wpc EXCEPT ![w] = LoopHead(w, wloc[w].pair + 1)]
    /\ wloc' = [wloc EXCEPT ![w].pair = @ + 1, ![w].wrote = @ \cup {wloc[w].pair}]
    /\ UNCHANGED <<kRestitution, kInput, notKernelVars>>

\* queue.enqueueNDRangeKernel(collisionKernel, ...): every work-item is at
\* the head of its for loop.
KernelLaunch ==
    /\ \A w \in WorkItems : wpc[w] = "idle"
    /\ wpc' = [w \in WorkItems |-> LoopHead(w, StartPair(w))]
    /\ UNCHANGED <<kBalls, wloc, kRestitution, kInput, notKernelVars>>

NextKernel ==
    \/ KernelLaunch
    \/ \E w \in WorkItems :
          \/ KernelLoad1(w)
          \/ KernelLoad2(w)
          \/ KernelStore1(w)
          \/ KernelStore2(w)

SpecKernel == Init /\ [][NextKernel]_vars

\* C12: when the launch is over, both balls of every pair that a work-item
\* resolved and wrote back carry that resolution.
C12_NoLostUpdate ==
    (\A w \in WorkItems : wpc[w] = "done") =>
        \A w \in WorkItems : \A p \in wloc[w].wrote :
            /\ p \in kBalls[PairI(p, 0)].resolved
            /\ p \in kBalls[PairJ(p)].resolved


\* The arrays the host uploads before a launch: balls 0 and 1 of equal mass
\* at a distance of 0, 10, 15 or 25, moving or at rest; the other balls at
\* rest and clear of every ball.
KernelInputs ==
    {[b \in KBalls |->
         IF b = 0 THEN KernelBall(0, v0, w0, m)
         ELSE IF b = 1 THEN KernelBall(x1, v1, -3, m)
         ELSE KernelBall(100 * b, 0, 0, 1)] :
       x1 \in {0, 10, 15, 25}, v0 \in {-20, 0, 20}, v1 \in {-20, 0, 20},
       w0 \in {0, 7}, m \in {1, 2}}

\* queue.enqueueWriteBuffer of the balls and of the constants, before the
\* kernels are enqueued.
KernelUpload ==
    /\ \A w \in WorkItems : wpc[w] = "idle"
    /\ \E input \in KernelInputs : kBalls' = input /\ kInput' = input
    /\ kRestitution' \in {80, 100}
    /\ UNCHANGED <<wpc, wloc, notKernelVars>>

NextKernelAny ==
    \/ KernelUpload
    \/ NextKernel

SpecKernelAny == Init /\ [][NextKernelAny]_vars

LaunchDone == \A w \in WorkItems : wpc[w] = "done"

\* Balls 0 and 1 of the input overlap, have equal mass and approach each
\* other along the x axis, and the restitution is 1.
HeadOn ==
    /\ Overlap(kInput[0], kInput[1])
    /\ kInput[0].mass = kInput[1].mass
    /\ (kInput[1].v - kInput[0].v)
           * (IF kInput[1].x < kInput[0].x THEN -1 ELSE 1) < 0
    /\ kRestitution = 100

\* C26: after the launch two balls that met head on with equal masses and
\* restitution 1 have exchanged their velocities along the axis and kept
\* their velocities across it.
C26_HeadOnExchange ==
    (LaunchDone /\ HeadOn) =>
        /\ kBalls[0].v = kInput[1].v
        /\ kBalls[1].v = kInput[0].v
        /\ kBalls[0].w = kInput[0].w
        /\ kBalls[1].w = kInput[1].w

\* A head-on pair with a velocity across the axis has been resolved and
\* written back.
C26_Witness ==
    /\ LaunchDone
    /\ HeadOn
    /\ kInput[0].w # 0
    /\ kInput[0].x # kInput[1].x
    /\ 0 \in wloc[0].wrote

\* C27: after the launch the centres of every two balls that overlapped
\* before it are at least the sum of their radii less 0.05 apart.
C27_NoPenetration ==
    LaunchDone =>
        \A i \in KBalls : \A j \in KBalls :
            (i < j /\ Overlap(kInput[i], kInput[j])) =>
                Abs(kBalls[j].x - kBalls[i].x) * 100
                    >= (kBalls[i].radius + kBalls[j].radius) * 100 - 5

----------------------------------------------------------------------------
\* Simulation::Simulation and Simulation::initializeBalls (pipeline variant)

\* Everything the constructor leaves alone.
notCtorVars == <<pipelineVars, cpc, configVars, taskVars, gridVars,
                 kernelVars, physVars, insertVars, queueVars, posVars>>

\* The ball counts and the screen widths and heights the constructor is
\* called with.
CountInputs == {MIN_COUNT - 1, MIN_COUNT, MAX_COUNT + 1}

DimInputs == {120, 0, -120}

CountAtLeastMin(numBalls) == ~(numBalls < MIN_COUNT)
\* The test at the head of initializeBalls: FALSE when it throws.
CountInRange(numBalls) == ~(numBalls < MIN_COUNT \/ numBalls > MAX_COUNT)

\* static_cast<int>(std::sqrt(numBalls * screenWidth / screenHeight)), where
\* the quotient is not negative and screenHeight is not 0.
GridCols(a) ==
    CHOOSE k \in 0..(a.numBalls * Abs(a.screenWidth)) :
        /\ k * k * Abs(a.screenHeight) <= a.numBalls * Abs(a.screenWidth)
        /\ (k + 1) * (k + 1) * Abs(a.screenHeight)
               > a.numBalls * Abs(a.screenWidth)

\* The grid arithmetic has no defined result: the quotient by a height of 0
\* is infinite or NaN and the square root of a negative quotient is NaN,
\* whose conversion to int is undefined; with gridCols = 0 the integer
\* division that computes gridRows divides by zero.
GridUndefined(a) ==
    \/ a.screenHeight = 0
    \/ a.screenWidth * a.screenHeight < 0
    \/ GridCols(a) = 0

GridRows(a) == (a.numBalls + GridCols(a) - 1) \div GridCols(a)

CellWidth(a) == a.screenWidth \div GridCols(a)

CellHeight(a) == a.screenHeight \div GridRows(a)

\* The values a std::uniform_real_distribution<float>(lo, hi) can return.
\* With hi < lo its precondition is violated; the value then lies between
\* the two.
Draws(lo, hi) ==
    IF lo <= hi
    THEN {v \in lo..hi : (v - lo) % DrawStep = 0 \/ v = hi}
    ELSE {v \in hi..lo : (v - hi) % DrawStep = 0 \/ v = lo}

\* config::Balls::MIN_SEPARATION, in hundredths.
MinSeparation == 100

\* dx * dx + dy * dy < minDist * minDist, with
\* minDist = (existingBall.radius + ball.radius) * MIN_SEPARATION.
TooClose(existingBall, ball) ==
    ((existingBall.x - ball.x) * (existingBall.x - ball.x)
         + (existingBall.y - ball.y) * (existingBall.y - ball.y)) * 10000
      < ((existingBall.radius + ball.radius) * MinSeparation)
            * ((existingBall.radius + ball.radius) * MinSeparation)

AnyPosition(ball) == TRUE
\* validPosition after the loop over the existing balls.
ValidPosition(ball) ==
    \A n \in 1..Len(placed) : ~TooClose(placed[n], ball)

\* The placement loops after the cell (row, col) with the balls placed so
\* far: the next cell, or the end of both loops.
AfterCell(row, col, balls) ==
    IF Len(balls) >= simArgs.numBalls THEN "empty"
    ELSE IF col + 1 < GridCols(simArgs) THEN "place"
    ELSE IF row + 1 < GridRows(simArgs) THEN "place"
    ELSE "empty"

NextCell(row, col) ==
    IF col + 1 < GridCols(simArgs)
    THEN [NoCell EXCEPT !.row = row, !.col = col + 1]
    ELSE [NoCell EXCEPT !.row = row + 1]

\* The constructor is entered; its initializer list stores the arguments.
CtorCall ==
    /\ simPc = "none"
    /\ \E n \in CountInputs : \E w \in DimInputs : \E h \in DimInputs :
          simArgs' = [numBalls |-> n, screenWidth |-> w, screenHeight |-> h]
    /\ simPc' = "count"
    /\ UNCHANGED <<placed, cell, notCtorVars>>

\* initializeBalls: the test of the count.
InitializeBallsCount ==
    /\ simPc = "count"
    /\ simPc' = IF CountInRange(simArgs.numBalls) THEN "grid" ELSE "threw"
    /\ UNCHANGED <<simArgs, placed, cell, notCtorVars>>

\* initializeBalls: gridCols, gridRows, cellWidth, cellHeight. Where the
\* arithmetic is undefined the process traps, or goes on with a grid of no
\* cells and throws for want of balls.
InitializeBallsGrid ==
    /\ simPc = "grid"
    /\ IF GridUndefined(simArgs)
       THEN simPc' \in {"crashed", "threw"}
       ELSE simPc' = "place"
    /\ UNCHANGED <<simArgs, placed, cell, notCtorVars>>

\* One attempt to place the ball of the current cell. The radius is drawn
\* once per cell, the position once per attempt. The masses 3, 5 and 7 go
\* with the radii 15, 20 and 25.
InitializeBallsAttempt ==
    /\ simPc = "place"
    /\ \E radius \in IF cell.attempt = 0 THEN {15, 20, 25} ELSE {cell.radius} :
       \E x \in Draws(cell.col * CellWidth(simArgs) + radius,
                      (cell.col + 1) * CellWidth(simArgs) - radius) :
       \E y \in Draws(cell.row * CellHeight(simArgs) + radius,
                      (cell.row + 1) * CellHeight(simArgs) - radius) :
          LET ball == [radius |-> radius, mass |-> (2 * radius - 15) \div 5,
                       x |-> x, y |-> y]
          IN  IF ValidPosition(ball)
              THEN /\ placed' = Append(placed, ball)
                   /\ cell' = NextCell(cell.row, cell.col)
                   /\ simPc' = AfterCell(cell.row, cell.col, placed')
              ELSE IF cell.attempt + 1 < MaxAttempts
              THEN /\ cell' = [cell EXCEPT !.attempt = @ + 1,
                                           !.radius = radius]
                   /\ UNCHANGED <<placed, simPc>>
              ELSE /\ cell' = NextCell(cell.row, cell.col)
                   /\ simPc' = AfterCell(cell.row, cell.col, placed)
                   /\ UNCHANGED placed
    /\ UNCHANGED <<simArgs, notCtorVars>>

\* initializeBalls: if (balls.empty()) throw.
InitializeBallsEmpty ==
    /\ simPc = "empty"
    /\ simPc' = IF placed = <<>> THEN "threw" ELSE "validate"
    /\ UNCHANGED <<simArgs, placed, cell, notCtorVars>>

\* validateConfig() and, when it returns, the rest of the constructor: the
\* frames are filled from balls, renderer and GPU manager are initialized.
CtorValidate ==
    /\ simPc = "validate"
    /\ simPc' = IF ValidateConfig(simArgs.screenWidth, simArgs.screenHeight,
                                  NewConfig(0))
                THEN "constructed" ELSE "threw"
    /\ UNCHANGED <<simArgs, placed, cell, notCtorVars>>

NextCtor ==
    \/ CtorCall
    \/ InitializeBallsCount
    \/ InitializeBallsGrid
    \/ InitializeBallsAttempt
    \/ InitializeBallsEmpty
    \/ CtorValidate

SpecCtor == Init /\ [][NextCtor]_vars

\* C22: with a ball count below MIN_COUNT or above MAX_COUNT the
\* constructor goes from the test of the count straight to the throw: no
\* ball is created, no cell is visited, no frame is filled.
C22_BadCountThrowsFirst ==
    (simPc # "none" /\ (simArgs.numBalls < 3 \/ simArgs.numBalls > 200))
        => /\ simPc \in {"count", "threw"}
           /\ placed = <<>>
           /\ cell = NoCell

\* The constructor has thrown for a count above the maximum although the
\* screen is valid.
C22_Witness ==
    /\ simPc = "threw"
    /\ simArgs.numBalls > 200
    /\ simArgs.screenWidth > 0
    /\ simArgs.screenHeight > 0

\* C23: with a width or height that is not positive the constructor ends in
\* a throw: it does not crash, run undefined arithmetic or hand back a
\* Simulation, and it places no ball.
C23_BadDimensionsThrow ==
    (simPc # "none" /\ (simArgs.screenWidth <= 0 \/ simArgs.screenHeight <= 0))
        => /\ simPc \in {"count", "grid", "threw"}
           /\ simPc = "grid" => ~GridUndefined(simArgs)
           /\ placed = <<>>

\* C29: the placed balls are pairwise at least the sum of their radii apart
\* and are no more than the count asked for.
C29_PlacedBallsApart ==
    /\ Len(placed) <= simArgs.numBalls
    /\ \A m \in 1..Len(placed) : \A n \in 1..Len(placed) :
          m < n =>
              (placed[m].x - placed[n].x) * (placed[m].x - placed[n].x)
                + (placed[m].y - placed[n].y) * (placed[m].y - placed[n].y)
              >= (placed[m].radius + placed[n].radius)
                   * (placed[m].radius + placed[n].radius)

\* Two balls have been placed and the first position drawn for the third
\* has been rejected because it overlaps one of them.
C29_Witness ==
    /\ simPc = "place"
    /\ cell.attempt > 0
    /\ Len(placed) = 2

----------------------------------------------------------------------------
\* The grid/mutex variant: one tick of Ball::updatePosition and
\* Ball::detectCollisions, along the x axis

\* Everything the tick leaves alone.
notPhysVars == <<pipelineVars, cpc, configVars, taskVars, gridVars,
                 kernelVars, ctorVars, insertVars, queueVars, posVars>>

\* radius_ and screenWidth_ in hundredths; every ball has mass_ 1.
BallRadius == 1000

ScreenWidth == 10000

\* v * n / d, rounded towards zero.
Scaled(v, n, d) == IF v < 0 THEN -(((-v) * n) \div d) ELSE (v * n) \div d

\* x_ and vx_ of a ball after updatePosition(dt), with velocities per dt:
\* the move, the clamp at the walls with RESTITUTION = 0.8, the damping.
UpdatedX(x, vx) ==
    IF x + vx - BallRadius < 0 THEN BallRadius
    ELSE IF x + vx + BallRadius > ScreenWidth THEN ScreenWidth - BallRadius
    ELSE x + vx

UpdatedVx(x, vx) ==
    Scaled(IF x + vx - BallRadius < 0 THEN Scaled(Abs(vx), 4, 5)
           ELSE IF x + vx + BallRadius > ScreenWidth
           THEN -Scaled(Abs(vx), 4, 5)
           ELSE vx,
           999, 1000)

\* distanceSquared < minDist * minDist, for this ball b and the other o.
Touching(b, o) ==
    (x_[o] - x_[b]) * (x_[o] - x_[b]) < (2 * BallRadius) * (2 * BallRadius)

\* distance, after the replacement made for distance == 0.
Apart(b, o) == IF x_[o] = x_[b] THEN 2 * BallRadius ELSE Abs(x_[o] - x_[b])

\* nx = dx / distance: from this ball to the other.
Nx(b, o) == IF x_[o] < x_[b] THEN -1 ELSE 1

\* relativeSpeed = relativeVx * nx + relativeVy * ny, where relativeVx is
\* this ball's velocity less the other's.
RelativeSpeed(b, o) == (vx_[b] - vx_[o]) * Nx(b, o)

\* impulseX / mass_: j = -(1 + e) * relativeSpeed / (1 / mass_ + 1 / mass_).
ImpulseX(b, o) == Scaled(-RelativeSpeed(b, o), 9, 10) * Nx(b, o)

\* nx * overlap, with overlap = (minDist - distance) / 2.
OverlapX(b, o) == ((2 * BallRadius - Apart(b, o)) \div 2) * Nx(b, o)

\* The positions and velocities the constructors give the balls.
StartX == {BallRadius, 1500, 2500, ScreenWidth - BallRadius}

StartVx == {-500, 0, 500}

\* Ball::Ball of every ball.
BallsNew ==
    /\ tickPc.phase = "new"
    /\ x_' \in [GridBalls -> StartX]
    /\ vx_' \in [GridBalls -> StartVx]
    /\ tickPc' = [tickPc EXCEPT !.phase = "update"]
    /\ UNCHANGED notPhysVars

\* The tick runs updatePosition on every ball and then detectCollisions on
\* every ball.
TickOrder == <<"update", "detect", "done">>

PhaseAfter(phase) ==
    TickOrder[(CHOOSE n \in 1..2 : TickOrder[n] = phase) + 1]

\* updatePosition of ball tickPc.b.
TickUpdatePosition ==
    /\ tickPc.phase = "update"
    /\ x_' = [x_ EXCEPT ![tickPc.b] = UpdatedX(@, vx_[tickPc.b])]
    /\ vx_' = [vx_ EXCEPT ![tickPc.b] = UpdatedVx(x_[tickPc.b], @)]
    /\ tickPc' = IF tickPc.b < NumGridBalls
                 THEN [tickPc EXCEPT !.b = @ + 1]
                 ELSE [phase |-> PhaseAfter("update"), b |-> 1, k |-> 1]
    /\ UNCHANGED notPhysVars

\* detectCollisions of ball tickPc.b: the body of its loop for the k-th
\* potential collision, under the scoped_lock of the pair.
TickDetectCollisions ==
    /\ tickPc.phase = "detect"
    /\ LET b == tickPc.b
           o == Other(tickPc.b, tickPc.k)
       IN  IF Touching(b, o) /\ RelativeSpeed(b, o) < 0
           THEN /\ vx_' = [vx_ EXCEPT ![b] = @ + ImpulseX(b, o),
                                      ![o] = @ - ImpulseX(b, o)]
                /\ x_' = [x_ EXCEPT ![b] = @ - OverlapX(b, o),
                                    ![o] = @ + OverlapX(b, o)]
           ELSE UNCHANGED <<x_, vx_>>
    /\ tickPc' = IF tickPc.k < NumGridBalls - 1
                 THEN [tickPc EXCEPT !.k = @ + 1]
                 ELSE IF tickPc.b < NumGridBalls
                 THEN [tickPc EXCEPT !.b = @ + 1, !.k = 1]
                 ELSE [phase |-> PhaseAfter("detect"), b |-> 1, k |-> 1]
    /\ UNCHANGED notPhysVars

NextPhys ==
    \/ BallsNew
    \/ TickUpdatePosition
    \/ TickDetectCollisions

SpecPhys == Init /\ [][NextPhys]_vars

\* C24: at the end of the tick every ball lies inside the arena.
C24_Containment ==
    tickPc.phase = "done" =>
        \A b \in GridBalls :
            /\ BallRadius <= x_[b]
            /\ x_[b] <= ScreenWidth - BallRadius

\* C25: detectCollisions leaves the velocities of an overlapping pair alone
\* when the pair is separating, that is when the other ball's velocity less
\* this ball's, along the normal from this ball to the other, is positive.
C25_SeparatingPairUntouched ==
    [][(/\ tickPc.phase = "detect"
        /\ Touching(tickPc.b, Other(tickPc.b, tickPc.k))
        /\ (vx_[Other(tickPc.b, tickPc.k)] - vx_[tickPc.b])
               * Nx(tickPc.b, Other(tickPc.b, tickPc.k)) > 0)
          => vx_' = vx_]_vars

----------------------------------------------------------------------------
\* The grid/mutex variant: concurrent calls of Grid::insertBall

\* Everything insertBall leaves alone.
notInsertVars == <<pipelineVars, cpc, configVars, taskVars, gridVars,
                   kernelVars, ctorVars, physVars, queueVars, posVars>>

\* cellSize_; the grid has NumCells columns and NumCells rows.
CellSize == 100

\* std::clamp(v, lo, hi).
Clamp(v, lo, hi) == IF v < lo THEN lo ELSE IF v > hi THEN hi ELSE v

\* static_cast<int>(v / cellSize_): the quotient is truncated towards zero.
Truncated(v) == IF v < 0 THEN -((-v) \div CellSize) ELSE v \div CellSize

\* cellX and cellY of insertBall.
CellIndex(x, y) ==
    <<Clamp(Truncated(x), 0, NumCells - 1),
      Clamp(Truncated(y), 0, NumCells - 1)>>

\* The cell of the call of thread t.
CellOf(t) == CellIndex(ipc[t].x, ipc[t].y)

CellAlwaysFree(c) == TRUE
\* The cell's mutex can be taken by the lock_guard.
CellFree(c) == cells_[c].mtx = 0

\* The positions getPosition may return: left of and above the arena, in
\* three different cells close to their common corner, and on the right
\* edge of the arena.
InsertPositions ==
    {<<-50, -50>>, <<90, 90>>, <<110, 110>>, <<110, 90>>,
     <<CellSize * NumCells, 50>>}

\* Thread t calls insertBall for ball t, up to the cell's index.
InsertCall(t) ==
    /\ ipc[t].pc = "idle"
    /\ \E p \in InsertPositions :
          ipc' = [ipc EXCEPT ![t] = [NoInsert EXCEPT !.pc = "lock",
                                                     !.x = p[1],
                                                     !.y = p[2]]]
    /\ UNCHANGED <<cells_, notInsertVars>>

\* The lock_guard on the cell's mutex.
InsertLock(t) ==
    /\ ipc[t].pc = "lock"
    /\ CellFree(CellOf(t))
    /\ cells_' = [cells_ EXCEPT ![CellOf(t)].mtx = t]
    /\ ipc' = [ipc EXCEPT ![t].pc = "size"]
    /\ UNCHANGED notInsertVars

\* push_back, first half: the vector's end is read.
InsertSize(t) ==
    /\ ipc[t].pc = "size"
    /\ ipc' = [ipc EXCEPT ![t].pc = "store",
                          ![t].size = Len(cells_[CellOf(t)].balls)]
    /\ UNCHANGED <<cells_, notInsertVars>>

\* push_back, second half: the ball is stored at the end that was read and
\* the end moves one past it.
InsertStore(t) ==
    /\ ipc[t].pc = "store"
    /\ cells_' = [cells_ EXCEPT ![CellOf(t)].balls =
                     SubSeq(@, 1, ipc[t].size) \o <<t>>]
    /\ ipc' = [ipc EXCEPT ![t].pc = "unlock"]
    /\ UNCHANGED notInsertVars

\* The lock_guard's destructor; insertBall returns.
InsertUnlock(t) ==
    /\ ipc[t].pc = "unlock"
    /\ cells_' = [cells_ EXCEPT ![CellOf(t)].mtx = 0]
    /\ ipc' = [ipc EXCEPT ![t].pc = "done"]
    /\ UNCHANGED notInsertVars

NextInsert ==
    \E t \in GridBalls :
        \/ InsertCall(t)
        \/ InsertLock(t)
        \/ InsertSize(t)
        \/ InsertStore(t)
        \/ InsertUnlock(t)

SpecInsert == Init /\ [][NextInsert]_vars

\* The number of references to ball b in cell c.
References(b, c) ==
    Cardinality({n \in 1..Len(cells_[c].balls) : cells_[c].balls[n] = b})

\* The cell the ball at (x, y) belongs to: floor, then clamp.
ClampedFloorCell(x, y) ==
    <<Clamp(x \div CellSize, 0, NumCells - 1),
      Clamp(y \div CellSize, 0, NumCells - 1)>>

\* C30: a ball whose insertBall has stored it is referenced exactly once, in
\* the cell with the clamped floor of its position divided by the cell size,
\* and in no other cell, whatever the other threads do; a ball that has not
\* been stored yet is referenced nowhere.
C30_InsertsSerialized ==
    \A t \in GridBalls : \A c \in CellIds :
        References(t, c) =
            IF /\ ipc[t].pc \in {"unlock", "done", "queried"}
               /\ c = ClampedFloorCell(ipc[t].x, ipc[t].y)
            THEN 1 ELSE 0

\* Every insert has returned; two balls share a cell, one of them clamped
\* into it, and another cell holds a ball too.
C30_Witness ==
    /\ \A t \in GridBalls : ipc[t].pc = "done"
    /\ Len(cells_[<<0, 0>>].balls) = 2
    /\ \E t \in GridBalls : ipc[t].x < 0
    /\ \E t \in GridBalls : ipc[t].x > 0 /\ CellOf(t) = <<0, 0>>
    /\ \E c \in CellIds \ {<<0, 0>>} : Len(cells_[c].balls) = 1

----------------------------------------------------------------------------
\* The pipeline: thread accounting

\* Every background thread has entered its loop.
AllThreadsInLoops ==
    \A t \in Threads : tpc[t] \notin {"off", "entry", "exit", "done"}

\* C40: while the simulation is running and the computation, control and
\* monitor threads are all in their loops, metrics.activeThreads is 3, the
\* value validateThreadState expects.
C40_ActiveThreadsIsThree ==
    (running /\ AllThreadsInLoops) => activeThreads = 3

----------------------------------------------------------------------------
\* The pipeline: progress of the computation thread

\* The computation thread is scheduled again and again and takes a mutex
\* that is free again and again; a call of updateSimulation that is made
\* again and again eventually returns without throwing; whoever holds
\* frameMutex goes on to release it. The control thread, the monitor thread
\* and the caller are otherwise free to make no progress at all.
ComputeFairness ==
    /\ SF_vars(ThreadStep("compute"))
    /\ SF_vars(ComputeTick)
    /\ WF_vars(frameMutex = "control" /\ ThreadStep("control"))
    /\ WF_vars(frameMutex = MainClient /\ ClientStep(MainClient))

SpecComputeFair == Init /\ [][Next]_vars /\ ComputeFairness

----------------------------------------------------------------------------
\* The pipeline: successive calls of updateSimulation

\* C37: state accumulates across ticks. When a call of updateSimulation
\* returns, the vector it was given holds the result of the tick, so that
\* the next call on that vector uploads the result of this one.
C37_StateAccumulates ==
    [][(tpc["compute"] = "tick" /\ tpc'["compute"] = "notify")
          => nextFrame' = ballBuffer']_vars

----------------------------------------------------------------------------
\* The per-ball task variant: update() and stop()

\* The task of ball i has returned from run(), so that nothing will store
\* updateReady_ of ball i any more.
TaskOver(i) == bpc[i] = "done"

\* C34: update() never spins in waitForUpdate on the updateReady_ flag of a
\* ball whose task is over: a spin that no store can end.
C34_UpdateReturns ==
    ~(/\ upc.op = "wait"
      /\ ~updateReady_[upc.i]
      /\ TaskOver(upc.i))

----------------------------------------------------------------------------
\* The detectCollisions kernel: the pairs of a launch of any size

\* totalPairs of a launch with n balls.
PairsOf(n) == (n * (n - 1)) \div 2

\* Mutant of PerItem: the quotient is rounded down.
PerItemFloor(n, items) == PairsOf(n) \div items
\* pairsPerThread of a launch with n balls and items work-items.
PerItem(n, items) == (PairsOf(n) + items - 1) \div items

\* The values of pair in the for loop of work-item gid: from startPair up
\* to endPair = min(startPair + pairsPerThread, totalPairs), exclusive.
RangeOf(n, items, gid) ==
    {pair \in 0..(PairsOf(n) - 1) :
        /\ gid * PerItem(n, items) <= pair
        /\ pair < gid * PerItem(n, items) + PerItem(n, items)}

\* i and j of a pair index: the while loop started with temp and i, and
\* j = temp + i + 1 after it.
RECURSIVE DecodeFrom(_, _, _)
DecodeFrom(n, temp, i) ==
    IF temp >= n - 1 - i
    THEN DecodeFrom(n, temp - (n - 1 - i), i + 1)
    ELSE <<i, temp + i + 1>>

\* The visits of a launch: a work-item and a pair index of its range.
Visits(n, items) ==
    {<<gid, pair>> \in (0..(items - 1)) \X (0..(PairsOf(n) - 1)) :
        pair \in RangeOf(n, items, gid)}

\* Every visit of a launch decodes to indices 0 <= i < j < numBalls, and
\* every such pair of indices is decoded by exactly one visit, for every
\* numBalls and every number of work-items up to the bounds.
LaunchesVisitOnce ==
    \A n \in 2..MaxLaunchBalls : \A items \in 1..MaxLaunchItems :
        /\ \A v \in Visits(n, items) :
              LET d == DecodeFrom(n, v[2], 0)
              IN  0 <= d[1] /\ d[1] < d[2] /\ d[2] < n
        /\ \A i \in 0..(n - 1) : \A j \in (i + 1)..(n - 1) :
              Cardinality({v \in Visits(n, items) :
                              DecodeFrom(n, v[2], 0) = <<i, j>>}) = 1

\* C36: in a launch of any numBalls >= 2 with any number of work-items
\* every unordered pair of balls is visited exactly once and no index is
\* out of bounds; the work-items of the launch under way work on pairs of
\* their own ranges, decoded this way.
C36_PairsVisitedOnce ==
    /\ LaunchesVisitOnce
    /\ \A w \in WorkItems :
          wpc[w] \notin {"idle", "done"} =>
              /\ wloc[w].pair \in RangeOf(NumKernelBalls, NumItems, w)
              /\ DecodeFrom(NumKernelBalls, wloc[w].pair, 0)
                    = <<PairI(wloc[w].pair, 0), PairJ(wloc[w].pair)>>

\* The launch is over: every work-item has been through its range, and the
\* last pair index has been decoded to the last two balls and resolved.
C36_Witness ==
    /\ LaunchDone
    /\ \A w \in WorkItems : wloc[w].pair = EndPair(w)
    /\ \E w \in WorkItems : PairsOf(NumKernelBalls) - 1 \in wloc[w].wrote
    /\ DecodeFrom(NumKernelBalls, PairsOf(NumKernelBalls) - 1, 0)
          = <<NumKernelBalls - 2, NumKernelBalls - 1>>

----------------------------------------------------------------------------
\* The resolvers: coincident centres

\* Balls 0 and 1 of the input have the same centre.
Coincident == kInput[0].x = kInput[1].x

\* What each ball's velocity along (1, 0) changes by when the coincident
\* pair of equal masses is resolved with that normal: nothing unless ball 1
\* is slower along it than ball 0.
ClosingChange ==
    IF kInput[1].v - kInput[0].v < 0
    THEN ((100 + kRestitution) * (kInput[0].v - kInput[1].v)) \div 200
    ELSE 0

\* C33: a pair with coincident centres is resolved with the normal (1, 0)
\* and every result is a definite value. In the kernel the launch leaves
\* the pair with the velocities of an impulse along (1, 0), the velocities
\* across it and the positions as uploaded. In the task variant the normal
\* has no y component, so a pair without relative velocity along x gets no
\* impulse. In the grid variant the normal is (1, 0), the distance is the
\* sum of the radii and the positional correction is 0.
C33_CoincidentCentres ==
    /\ (LaunchDone /\ Coincident) =>
          /\ kBalls[0].v = kInput[0].v - ClosingChange
          /\ kBalls[1].v = kInput[1].v + ClosingChange
          /\ \A b \in {0, 1} :
                /\ kBalls[b].w = kInput[b].w
                /\ kBalls[b].x = kInput[b].x
    /\ \A vo \in {-20000, 0, 20000} : \A vs \in {-20000, 0, 20000} :
          /\ Ny(0) = 0
          /\ DeltaV([dy |-> 0, vo |-> vo, vs |-> vs]) = 0
    /\ x_[1] = x_[2] =>
          /\ Nx(1, 2) = 1
          /\ Apart(1, 2) = 2 * BallRadius
          /\ OverlapX(1, 2) = 0

\* A coincident pair whose ball 1 is slower along (1, 0) than ball 0 has
\* been resolved and written back.
C33_Witness ==
    /\ LaunchDone
    /\ Coincident
    /\ ClosingChange > 0
    /\ 0 \in wloc[0].wrote

----------------------------------------------------------------------------
\* The two-queue GPUManager::updateSimulation of the OpenGL-interop variant

\* Everything updateSimulation leaves alone.
notQueueVars == <<pipelineVars, cpc, configVars, taskVars, gridVars,
                  kernelVars, ctorVars, physVars, insertVars, posVars>>

\* One run of a kernel: which kernel, of which call, with which constants.
KernelRun(kernel, call, read) ==
    [kernel |-> kernel, call |-> call, constants |-> read]

\* What updateSimulation enqueues on transferQueue in call n, in program
\* order: the two non-blocking writes and the blocking read.
TransferCommands(n) ==
    <<[op |-> "writeBalls", call |-> n],
      [op |-> "writeConstants", call |-> n],
      [op |-> "readBalls", call |-> n]>>

\* What it enqueues on computeQueue: the physics and the collision kernel.
\* No command has an event wait list, and nothing waits for computeQueue.
ComputeCommands(n) ==
    <<[op |-> "physics", call |-> n], [op |-> "collision", call |-> n]>>

\* updateSimulation is called and enqueues its commands.
UpdateSimulationCall ==
    /\ host.pc = "idle"
    /\ host.call < MaxQueueCalls
    /\ host' = [host EXCEPT !.call = @ + 1, !.pc = "reading"]
    /\ transferQueue' = transferQueue \o TransferCommands(host.call + 1)
    /\ computeQueue' = computeQueue \o ComputeCommands(host.call + 1)
    /\ UNCHANGED <<gpu, notQueueVars>>

\* The device runs the next command of transferQueue, an in-order queue.
\* The blocking read returns to the caller when it has run.
TransferRun ==
    /\ transferQueue # <<>>
    /\ LET c == Head(transferQueue)
       IN  /\ gpu' = IF c.op = "writeBalls"
                     THEN [gpu EXCEPT !.ballBuffer = host.balls]
                     ELSE IF c.op = "writeConstants"
                     THEN [gpu EXCEPT !.constantsBuffer = c.call]
                     ELSE gpu
           /\ host' = IF c.op = "readBalls"
                      THEN [host EXCEPT !.balls = gpu.ballBuffer,
                                        !.pc = "idle"]
                      ELSE host
    /\ transferQueue' = Tail(transferQueue)
    /\ UNCHANGED <<computeQueue, notQueueVars>>

\* The device runs the next command of computeQueue, an in-order queue: a
\* kernel on the ballBuffer and the constantsBuffer as they are then.
ComputeRun ==
    /\ computeQueue # <<>>
    /\ LET c == Head(computeQueue)
       IN  gpu' = [gpu EXCEPT !.ballBuffer =
                      Append(@, KernelRun(c.op, c.call, gpu.constantsBuffer))]
    /\ computeQueue' = Tail(computeQueue)
    /\ UNCHANGED <<transferQueue, host, notQueueVars>>

NextQueue ==
    \/ UpdateSimulationCall
    \/ TransferRun
    \/ ComputeRun

SpecQueue == Init /\ [][NextQueue]_vars

\* The ball data after n ticks in program order: the physics and then the
\* collision kernel of each call, run with the constants of that call.
RECURSIVE InOrder(_)
InOrder(n) ==
    IF n = 0 THEN <<>>
    ELSE InOrder(n - 1)
             \o <<KernelRun("physics", n, n), KernelRun("collision", n, n)>>

\* C35: when updateSimulation returns, the caller's vector holds the balls
\* as the physics and the collision kernel of every call so far have left
\* them, each kernel having read the balls and the constants written by
\* the same call.
C35_ProgramOrder ==
    (host.pc = "idle") => host.balls = InOrder(host.call)

----------------------------------------------------------------------------
\* The grid/mutex variant: readers and writers of one ball's position

\* Everything the position's readers and writers leave alone.
notPosVars == <<pipelineVars, cpc, configVars, taskVars, gridVars,
                kernelVars, ctorVars, physVars, insertVars, queueVars>>

\* The thread's position and locals after a step.
PosAt(t, pc) == [posPc EXCEPT ![t].pc = pc]

\* Ball::updatePosition on the ball's own thread: x_ = newX, then y_ = newY,
\* with no lock on mtx_. The new values carry the number of the write.
UpdatePosition ==
    \/ /\ posPc["own"].pc = "idle"
       /\ xy_.writes < MaxWrites
       /\ xy_' = [xy_ EXCEPT !.writes = @ + 1]
       /\ posPc' = [posPc EXCEPT !["own"] =
                       [pc |-> "storeX", x |-> xy_.writes + 1,
                        y |-> xy_.writes + 1]]
       /\ UNCHANGED <<mtx_, notPosVars>>
    \/ /\ posPc["own"].pc = "storeX"
       /\ xy_' = [xy_ EXCEPT !.x = posPc["own"].x]
       /\ posPc' = PosAt("own", "storeY")
       /\ UNCHANGED <<mtx_, notPosVars>>
    \/ /\ posPc["own"].pc = "storeY"
       /\ xy_' = [xy_ EXCEPT !.y = posPc["own"].y]
       /\ posPc' = PosAt("own", "idle")
       /\ UNCHANGED <<mtx_, notPosVars>>

\* The positional correction of another ball's detectCollisions:
\* other->x_ += nx * overlap, then other->y_ += ny * overlap, inside the
\* scoped_lock that holds this ball's mtx_.
CorrectPosition ==
    \/ /\ posPc["other"].pc = "idle"
       /\ xy_.writes < MaxWrites
       /\ xy_' = [xy_ EXCEPT !.writes = @ + 1]
       /\ posPc' = [posPc EXCEPT !["other"] =
                       [pc |-> "lock", x |-> xy_.writes + 1,
                        y |-> xy_.writes + 1]]
       /\ UNCHANGED <<mtx_, notPosVars>>
    \/ /\ posPc["other"].pc = "lock"
       /\ mtx_ = "free"
       /\ mtx_' = "other"
       /\ posPc' = PosAt("other", "storeX")
       /\ UNCHANGED <<xy_, notPosVars>>
    \/ /\ posPc["other"].pc = "storeX"
       /\ xy_' = [xy_ EXCEPT !.x = posPc["other"].x]
       /\ posPc' = PosAt("other", "storeY")
       /\ UNCHANGED <<mtx_, notPosVars>>
    \/ /\ posPc["other"].pc = "storeY"
       /\ xy_' = [xy_ EXCEPT !.y = posPc["other"].y]
       /\ posPc' = PosAt("other", "unlock")
       /\ UNCHANGED <<mtx_, notPosVars>>
    \/ /\ posPc["other"].pc = "unlock"
       /\ mtx_' = "free"
       /\ posPc' = PosAt("other", "idle")
       /\ UNCHANGED <<xy_, notPosVars>>

\* Ball::getPosition(x, y): x = x_, then y = y_, under a lock_guard on
\* mtx_. The values returned stay in the thread's x and y.
ReadPosition ==
    \/ /\ posPc["reader"].pc = "idle"
       /\ posPc' = PosAt("reader", "lock")
       /\ UNCHANGED <<xy_, mtx_, notPosVars>>
    \/ /\ posPc["reader"].pc = "lock"
       /\ mtx_ = "free"
       /\ mtx_' = "reader"
       /\ posPc' = PosAt("reader", "loadX")
       /\ UNCHANGED <<xy_, notPosVars>>
    \/ /\ posPc["reader"].pc = "loadX"
       /\ posPc' = [posPc EXCEPT !["reader"].pc = "loadY",
                                 !["reader"].x = xy_.x]
       /\ UNCHANGED <<xy_, mtx_, notPosVars>>
    \/ /\ posPc["reader"].pc = "loadY"
       /\ posPc' = [posPc EXCEPT !["reader"].pc = "unlock",
                                 !["reader"].y = xy_.y]
       /\ UNCHANGED <<xy_, mtx_, notPosVars>>
    \/ /\ posPc["reader"].pc = "unlock"
       /\ mtx_' = "free"
       /\ posPc' = PosAt("reader", "idle")
       /\ UNCHANGED <<xy_, notPosVars>>

NextPos ==
    \/ UpdatePosition
    \/ CorrectPosition
    \/ ReadPosition

SpecPos == Init /\ [][NextPos]_vars

\* C39: the x and the y that getPosition returns are of the same write,
\* as they would be if every write to x_ and y_ were made with the ball's
\* mtx_ held.
C39_PositionNotTorn ==
    posPc["reader"].pc \in {"unlock", "idle"} =>
        posPc["reader"].x = posPc["reader"].y

----------------------------------------------------------------------------
\* The grid/mutex variant: Grid::getPotentialCollisions on the rebuilt grid

\* cellX and cellY of getPotentialCollisions: truncated and not clamped.
QueryCell(t) == <<Truncated(ipc[t].x), Truncated(ipc[t].y)>>

\* Mutant of CheckedCell: only the ball's own cell is looked at.
CheckedCellOwn(c, n) == c
\* The n-th cell of the two nested loops over i and j from -1 to 1:
\* (cellX + i, cellY + j), for n from 1 to 9.
CheckedCell(c, n) == <<c[1] + ((n - 1) \div 3) - 1, c[2] + ((n - 1) % 3) - 1>>

\* What the inner loop appends for ball b from cell c: nothing from a cell
\* outside the grid, every ball of the cell but b otherwise.
Appended(b, c) ==
    IF c \in CellIds
    THEN SelectSeq(cells_[c].balls, LAMBDA o : o # b)
    ELSE <<>>

\* potentials after the cells from the n-th on have been looked at.
RECURSIVE Potentials(_, _, _)
Potentials(b, c, n) ==
    IF n > 9 THEN <<>>
    ELSE Appended(b, CheckedCell(c, n)) \o Potentials(b, c, n + 1)

\* Every insertBall of the rebuild has returned.
Rebuilt == \A t \in GridBalls : ipc[t].pc \in {"done", "queried"}

\* Thread t calls getPotentialCollisions for ball t on the rebuilt grid.
QueryPotentialCollisions(t) ==
    /\ Rebuilt
    /\ ipc[t].pc = "done"
    /\ ipc' = [ipc EXCEPT ![t].pc = "queried",
                          ![t].out = Potentials(t, QueryCell(t), 1)]
    /\ UNCHANGED <<cells_, notInsertVars>>

NextQuery ==
    \/ NextInsert
    \/ \E t \in GridBalls : QueryPotentialCollisions(t)

SpecQuery == Init /\ [][NextQuery]_vars

\* The balls other than t stored in the cells of the grid that are at most
\* one column and one row away from the cell ball t was inserted into.
BlockBalls(t) ==
    {b \in GridBalls \ {t} :
        \E c \in CellIds :
            /\ c[1] - CellOf(t)[1] \in {-1, 0, 1}
            /\ c[2] - CellOf(t)[2] \in {-1, 0, 1}
            /\ References(b, c) > 0}

\* The balls of a result.
Listed(t) == {ipc[t].out[n] : n \in 1..Len(ipc[t].out)}

\* C31: the result of getPotentialCollisions for a ball lists exactly the
\* other balls of the 3x3 block of cells around the cell the ball was
\* inserted into, each once.
C31_BlockOfInsertedCell ==
    \A t \in GridBalls :
        ipc[t].pc = "queried" =>
            /\ Listed(t) = BlockBalls(t)
            /\ Len(ipc[t].out) = Cardinality(BlockBalls(t))

\* The radius of every ball: the cell size is the diameter.
GridBallRadius == CellSize \div 2

\* Every ball lies inside the arena.
AllInside ==
    \A t \in GridBalls :
        /\ GridBallRadius <= ipc[t].x
        /\ ipc[t].x <= CellSize * NumCells - GridBallRadius
        /\ GridBallRadius <= ipc[t].y
        /\ ipc[t].y <= CellSize * NumCells - GridBallRadius

\* The centres of balls t and u are less than the sum of the radii apart.
Overlapping(t, u) ==
    (ipc[t].x - ipc[u].x) * (ipc[t].x - ipc[u].x)
        + (ipc[t].y - ipc[u].y) * (ipc[t].y - ipc[u].y)
        < (2 * GridBallRadius) * (2 * GridBallRadius)

\* C32: on a rebuilt grid whose cells are as large as a ball's diameter and
\* whose balls all lie inside the arena, a ball's result lists every other
\* ball that overlaps it.
C32_OverlappingPairListed ==
    (Rebuilt /\ AllInside) =>
        \A t \in GridBalls : \A u \in GridBalls \ {t} :
            (ipc[t].pc = "queried" /\ Overlapping(t, u)) =>
                u \in Listed(t)

\* All balls are inside the arena, and two overlapping balls that were
\* inserted into different cells have each got the other in their result.
C32_Witness ==
    /\ AllInside
    /\ \E t \in GridBalls : \E u \in GridBalls \ {t} :
          /\ ipc[t].pc = "queried" /\ ipc[u].pc = "queried"
          /\ Overlapping(t, u)
          /\ CellOf(t) # CellOf(u)
          /\ u \in Listed(t) /\ t \in Listed(u)

====
